---- MODULE Spec2Model ----
(***************************************************************************)
(* Cloth ("cape") simulator and procedural wind field of Loom.             *)
(*                                                                         *)
(* Numbers: every float of the program is a fixed-point integer counting   *)
(* thousandths (Scale = 1000), so 1.0f is 1000 and 0.1f is 100.  Products and  *)
(* quotients are rescaled and truncated toward zero.  Vectors are tuples   *)
(* <<x, y>> (Vector2D) or <<x, y, z>> (Vector3D).                          *)
(***************************************************************************)
EXTENDS Integers, Sequences, FiniteSets, TLC

VARIABLES
    dim,              \* 2: Vector2D classes (Cape, WindField); 3: the 3D classes
    particles,        \* std::vector<VerletParticle[3D]>
    constraints,      \* std::vector<VerletConstraint[3D]>, endpoints as indices
    bendConstraints,  \* std::vector<BendingConstraint[3D]>
    config,           \* CapeConfig / CapeConfig3D
    attachVelocity,   \* Cape::attachVelocity
    currentForward,   \* Cape3D::currentForward
    attachLine,       \* history: row-0 positions handed out by construction / setAttachPoint
    windConfig,       \* WindConfig / WindConfig3D
    time,             \* WindField::time
    gusts,            \* WindField::gusts
    vortices,         \* WindField3D::vortices
    nextId,           \* history: identity of the next transient event
    removed,          \* history: identities of the events erased so far
    before,           \* history: the particle array just before that call
    windBefore,       \* history: the wind field's state just before that call
    lastOp,           \* history: the call that produced this state
    steps,            \* number of calls made so far
    initial,          \* history: the objects as their constructors left them
    lastArg,          \* history: the argument of the call that produced this state
    twin,             \* a second system, built and driven like the first
    forceSum          \* history: sum of f / mass over the applyForce calls since the last update

vars == <<dim, particles, constraints, bendConstraints, config, attachVelocity,
          currentForward, attachLine, windConfig, time, gusts, vortices,
          nextId, removed, before, windBefore, lastOp, steps, initial, lastArg,
          twin, forceSum>>

capeVars == <<constraints, bendConstraints, config, attachVelocity,
              currentForward, attachLine>>
windVars == <<windConfig, time, gusts, vortices, nextId, removed, windBefore>>
auxVars == <<initial, lastArg, twin, forceSum>>

-----------------------------------------------------------------------------
(* Bounds *)

\* calls made on a single particle (SpecParticle)
MaxSteps == 4

\* calls made on the three-particle rig (SpecConstraint)
MaxRigSteps == 3

\* calls made on a wind field before it is only left to run out (SpecWind)
MaxWindSteps == 5

\* transient events added to one wind field
MaxEvents == 2

\* the wind clock is not advanced beyond this
MaxTime == 10000

-----------------------------------------------------------------------------
(* Fixed-point arithmetic standing for float *)

Scale == 1000

Abs(a) == IF a < 0 THEN -a ELSE a

Sign(a) == IF a < 0 THEN -1 ELSE 1

Min(a, b) == IF a < b THEN a ELSE b

Max(a, b) == IF a > b THEN a ELSE b

\* quotient of two integers, truncated toward zero
Quot(a, b) == Sign(a) * Sign(b) * (Abs(a) \div Abs(b))

\* a * b of two floats (the product is split so that it stays in range)
Mul(a, b) ==
    LET hi == Abs(a) \div Scale
        lo == Abs(a) % Scale
    IN  Sign(a) * Sign(b) * (hi * Abs(b) + (lo * Abs(b)) \div Scale)

\* a / b of two floats
Div(a, b) ==
    LET q == Abs(a) \div Abs(b)
        r == Abs(a) % Abs(b)
    IN  Sign(a) * Sign(b) * (q * Scale + (r * Scale) \div Abs(b))

\* a time step dt is the rational dt[1] / dt[2] seconds (1/60 is <<1, 60>>)
DtTimes(dt, a) == Quot(a * dt[1], dt[2])

\* a * (dt * dt)
DtSqTimes(dt, a) == Quot(a * dt[1] * dt[1], dt[2] * dt[2])

RECURSIVE SqrtIter(_, _, _)
SqrtIter(n, lo, hi) ==
    IF lo >= hi THEN lo
    ELSE LET mid == (lo + hi + 1) \div 2
         IN  IF mid * mid <= n THEN SqrtIter(n, mid, hi)
             ELSE SqrtIter(n, lo, mid - 1)

\* std::sqrt of the raw product of two fixed-point numbers (floor)
Sqrt(n) == IF n <= 0 THEN 0 ELSE SqrtIter(n, 0, 46340)

\* 3.14159f and 6.28318f
Pi == 3142
TwoPi == 6283

\* std::sin on [0, pi]: 16x(pi - x) / (5 pi^2 - 4x(pi - x))
SinHalfTurn(x) ==
    LET p == x * (Pi - x)
    IN  (16 * p) \div ((5 * Pi * Pi - 4 * p) \div Scale)

\* std::sin
Sin(x) ==
    LET r == x % (2 * Pi)
    IN  IF r <= Pi THEN SinHalfTurn(r) ELSE -SinHalfTurn(r - Pi)

\* std::cos
Cos(x) == Sin(x + Pi \div 2)

\* std::atan on [0, 1]: a (pi/4 + 0.273 (1 - a))
AtanUnit(a) == Mul(a, 785 + Mul(273, Scale - a))

\* std::atan2, in (-pi, pi]
Atan2(y, x) ==
    IF x = 0 /\ y = 0 THEN 0
    ELSE LET ax == Abs(x)
             ay == Abs(y)
             small == AtanUnit(Div(Min(ax, ay), Max(ax, ay)))
             first == IF ay > ax THEN Pi \div 2 - small ELSE small
             upper == IF x < 0 THEN Pi - first ELSE first
         IN  IF y < 0 THEN -upper ELSE upper

\* std::clamp
Clamp(v, lo, hi) == IF v < lo THEN lo ELSE IF v > hi THEN hi ELSE v

\* std::acos on [-1, 1]
Acos(d) == Atan2(Sqrt(Scale * Scale - d * d), d)

-----------------------------------------------------------------------------
(* Vector2D / Vector3D *)

Zero(d) == IF d = 2 THEN <<0, 0>> ELSE <<0, 0, 0>>

VAdd(a, b) ==
    IF Len(a) = 2 THEN <<a[1] + b[1], a[2] + b[2]>>
    ELSE <<a[1] + b[1], a[2] + b[2], a[3] + b[3]>>

VSub(a, b) ==
    IF Len(a) = 2 THEN <<a[1] - b[1], a[2] - b[2]>>
    ELSE <<a[1] - b[1], a[2] - b[2], a[3] - b[3]>>

VMul(a, s) ==
    IF Len(a) = 2 THEN <<Mul(a[1], s), Mul(a[2], s)>>
    ELSE <<Mul(a[1], s), Mul(a[2], s), Mul(a[3], s)>>

VDiv(a, s) ==
    IF Len(a) = 2 THEN <<Div(a[1], s), Div(a[2], s)>>
    ELSE <<Div(a[1], s), Div(a[2], s), Div(a[3], s)>>

\* a * (dt * dt)
VDtSq(a, dt) ==
    IF Len(a) = 2 THEN <<DtSqTimes(dt, a[1]), DtSqTimes(dt, a[2])>>
    ELSE <<DtSqTimes(dt, a[1]), DtSqTimes(dt, a[2]), DtSqTimes(dt, a[3])>>

\* x*x + y*y (+ z*z) of raw components
rawLengthSquared(a) ==
    IF Len(a) = 2 THEN a[1] * a[1] + a[2] * a[2]
    ELSE a[1] * a[1] + a[2] * a[2] + a[3] * a[3]

MaxAbs(a) ==
    IF Len(a) = 2 THEN Max(Abs(a[1]), Abs(a[2]))
    ELSE Max(Abs(a[1]), Max(Abs(a[2]), Abs(a[3])))

\* long vectors are measured in tenths so that the squares stay in range
RECURSIVE length(_)
length(a) ==
    IF MaxAbs(a) > 25000
    THEN 10 * length(IF Len(a) = 2 THEN <<a[1] \div 10, a[2] \div 10>>
                     ELSE <<a[1] \div 10, a[2] \div 10, a[3] \div 10>>)
    ELSE Sqrt(rawLengthSquared(a))

lengthSquared(a) ==
    IF Len(a) = 2 THEN Mul(a[1], a[1]) + Mul(a[2], a[2])
    ELSE Mul(a[1], a[1]) + Mul(a[2], a[2]) + Mul(a[3], a[3])

\* len > 0.0001f (10 len > 1 in thousandths), else the zero vector
normalized(a) ==
    LET len == length(a)
    IN  IF len * 10 > 1 THEN VDiv(a, len) ELSE Zero(Len(a))

dot(a, b) ==
    IF Len(a) = 2 THEN Mul(a[1], b[1]) + Mul(a[2], b[2])
    ELSE Mul(a[1], b[1]) + Mul(a[2], b[2]) + Mul(a[3], b[3])

\* Vector2D::cross, a scalar
cross2(a, b) == Mul(a[1], b[2]) - Mul(a[2], b[1])

\* Vector2D::rotated
rotated(a, angle) ==
    LET c == Cos(angle)
        s == Sin(angle)
    IN  << Mul(a[1], c) - Mul(a[2], s), Mul(a[1], s) + Mul(a[2], c) >>

\* Vector3D::cross
cross3(a, b) ==
    << Mul(a[2], b[3]) - Mul(a[3], b[2]),
       Mul(a[3], b[1]) - Mul(a[1], b[3]),
       Mul(a[1], b[2]) - Mul(a[2], b[1]) >>

-----------------------------------------------------------------------------
(* VerletParticle *)

DefaultDamping == 990

VerletParticle(pos, mass, pinned) ==
    [ position |-> pos, previousPosition |-> pos,
      acceleration |-> Zero(2), mass |-> mass, pinned |-> pinned,
      damping |-> DefaultDamping ]

VerletParticle_applyForce(p, force) ==
    IF ~p.pinned
    THEN [p EXCEPT !.acceleration = VAdd(@, VDiv(force, p.mass))]
    ELSE p

\* a slip: the integrator without the pinned early return
Mut_VerletParticle_update(p, dt) ==
    LET velocity == VMul(VSub(p.position, p.previousPosition), p.damping)
    IN  [p EXCEPT !.previousPosition = p.position,
                  !.position = VAdd(VAdd(p.position, velocity),
                                    VDtSq(p.acceleration, dt)),
                  !.acceleration = Zero(2)]

\* a slip: the accumulator is not cleared after integration
Mut_VerletParticle_updateKeepsForce(p, dt) ==
    IF p.pinned
    THEN [p EXCEPT !.acceleration = Zero(2)]
    ELSE LET velocity == VMul(VSub(p.position, p.previousPosition), p.damping)
         IN  [p EXCEPT !.previousPosition = p.position,
                       !.position = VAdd(VAdd(p.position, velocity),
                                         VDtSq(p.acceleration, dt))]

VerletParticle_update(p, dt) ==
    IF p.pinned
    THEN [p EXCEPT !.acceleration = Zero(2)]
    ELSE LET velocity == VMul(VSub(p.position, p.previousPosition), p.damping)
         IN  [p EXCEPT !.previousPosition = p.position,
                       !.position = VAdd(VAdd(p.position, velocity),
                                         VDtSq(p.acceleration, dt)),
                       !.acceleration = Zero(2)]

VerletParticle_getVelocity(p) == VSub(p.position, p.previousPosition)

VerletParticle_setVelocity(p, vel) ==
    [p EXCEPT !.previousPosition = VSub(p.position, vel)]

VerletParticle_pin(p) == [p EXCEPT !.pinned = TRUE]

VerletParticle_unpin(p) == [p EXCEPT !.pinned = FALSE]

\* a slip: previousPosition is set to pos whatever the pinned flag is
Mut_VerletParticle_moveTo(p, pos) ==
    [p EXCEPT !.position = pos, !.previousPosition = pos]

VerletParticle_moveTo(p, pos) ==
    LET delta == VSub(pos, p.position)
    IN  IF p.pinned
        THEN [p EXCEPT !.position = pos, !.previousPosition = pos]
        ELSE [p EXCEPT !.position = pos,
                       !.previousPosition = VAdd(p.previousPosition, delta)]

(* VerletParticle3D *)

DefaultRadius == 500

VerletParticle3D(pos, mass, pinned) ==
    [ position |-> pos, previousPosition |-> pos,
      acceleration |-> Zero(3), mass |-> mass, pinned |-> pinned,
      damping |-> DefaultDamping, radius |-> DefaultRadius ]

VerletParticle3D_applyForce(p, force) ==
    IF ~p.pinned
    THEN [p EXCEPT !.acceleration = VAdd(@, VDiv(force, p.mass))]
    ELSE p

VerletParticle3D_update(p, dt) ==
    IF p.pinned
    THEN [p EXCEPT !.acceleration = Zero(3)]
    ELSE LET velocity == VMul(VSub(p.position, p.previousPosition), p.damping)
         IN  [p EXCEPT !.previousPosition = p.position,
                       !.position = VAdd(VAdd(p.position, velocity),
                                         VDtSq(p.acceleration, dt)),
                       !.acceleration = Zero(3)]

VerletParticle3D_getVelocity(p) == VSub(p.position, p.previousPosition)

VerletParticle3D_setVelocity(p, vel) ==
    [p EXCEPT !.previousPosition = VSub(p.position, vel)]

VerletParticle3D_pin(p) == [p EXCEPT !.pinned = TRUE]

VerletParticle3D_unpin(p) == [p EXCEPT !.pinned = FALSE]

VerletParticle3D_moveTo(p, pos) ==
    LET delta == VSub(pos, p.position)
    IN  IF p.pinned
        THEN [p EXCEPT !.position = pos, !.previousPosition = pos]
        ELSE [p EXCEPT !.position = pos,
                       !.previousPosition = VAdd(p.previousPosition, delta)]

(* the particle class of the running dimension *)

NewParticle(pos, mass, pinned) ==
    IF Len(pos) = 2 THEN VerletParticle(pos, mass, pinned)
    ELSE VerletParticle3D(pos, mass, pinned)

applyForce(p, force) ==
    IF Len(p.position) = 2 THEN VerletParticle_applyForce(p, force)
    ELSE VerletParticle3D_applyForce(p, force)

update(p, dt) ==
    IF Len(p.position) = 2 THEN VerletParticle_update(p, dt)
    ELSE VerletParticle3D_update(p, dt)

getVelocity(p) ==
    IF Len(p.position) = 2 THEN VerletParticle_getVelocity(p)
    ELSE VerletParticle3D_getVelocity(p)

setVelocity(p, vel) ==
    IF Len(p.position) = 2 THEN VerletParticle_setVelocity(p, vel)
    ELSE VerletParticle3D_setVelocity(p, vel)

moveTo(p, pos) ==
    IF Len(p.position) = 2 THEN VerletParticle_moveTo(p, pos)
    ELSE VerletParticle3D_moveTo(p, pos)

pin(p) ==
    IF Len(p.position) = 2 THEN VerletParticle_pin(p)
    ELSE VerletParticle3D_pin(p)

unpin(p) ==
    IF Len(p.position) = 2 THEN VerletParticle_unpin(p)
    ELSE VerletParticle3D_unpin(p)

-----------------------------------------------------------------------------
(* VerletConstraint: particleA / particleB are indices into the particle    *)
(* array, 0 standing for nullptr                                            *)

\* third constructor: the rest length is given
VerletConstraint(a, b, restLength, stiffness) ==
    [ particleA |-> a, particleB |-> b, restLength |-> restLength,
      stiffness |-> stiffness, active |-> TRUE ]

\* second constructor: the rest length is the current distance
VerletConstraintAtRest(ps, a, b, stiffness) ==
    [ particleA |-> a, particleB |-> b,
      restLength |-> length(VSub(ps[b].position, ps[a].position)),
      stiffness |-> stiffness, active |-> TRUE ]

\* a slip: the correction is split by mass whatever the pinned flags are
Mut_VerletConstraint_solve(ps, c) ==
    IF ~c.active \/ c.particleA = 0 \/ c.particleB = 0 THEN ps
    ELSE
    LET a == ps[c.particleA]
        b == ps[c.particleB]
        delta == VSub(b.position, a.position)
        currentLength == length(delta)
    IN  IF currentLength * 10 < 1 THEN ps
        ELSE
        LET diff == Div(currentLength - c.restLength, currentLength)
            correction == VMul(delta, Mul(Mul(diff, 500), c.stiffness))
            totalMass == a.mass + b.mass
            ratioA == Div(b.mass, totalMass)
            ratioB == Div(a.mass, totalMass)
        IN  [ps EXCEPT
                ![c.particleA].position = VAdd(@, VMul(correction, ratioA)),
                ![c.particleB].position = VSub(@, VMul(correction, ratioB))]

\* a slip: the share of each particle grows with its own mass
Mut_VerletConstraint_solveOwnMass(ps, c) ==
    IF ~c.active \/ c.particleA = 0 \/ c.particleB = 0 THEN ps
    ELSE
    LET a == ps[c.particleA]
        b == ps[c.particleB]
        delta == VSub(b.position, a.position)
        currentLength == length(delta)
    IN  IF currentLength * 10 < 1 THEN ps
        ELSE
        LET diff == Div(currentLength - c.restLength, currentLength)
            correction == VMul(delta, Mul(Mul(diff, 500), c.stiffness))
        IN  IF ~a.pinned /\ ~b.pinned
            THEN LET totalMass == a.mass + b.mass
                     ratioA == Div(a.mass, totalMass)
                     ratioB == Div(b.mass, totalMass)
                 IN  [ps EXCEPT
                        ![c.particleA].position = VAdd(@, VMul(correction, ratioA)),
                        ![c.particleB].position = VSub(@, VMul(correction, ratioB))]
            ELSE IF ~a.pinned
            THEN [ps EXCEPT
                    ![c.particleA].position = VAdd(@, VMul(correction, 2000))]
            ELSE IF ~b.pinned
            THEN [ps EXCEPT
                    ![c.particleB].position = VSub(@, VMul(correction, 2000))]
            ELSE ps

\* a slip: the correction is applied with the opposite sign
Mut_VerletConstraint_solveAway(ps, c) ==
    IF ~c.active \/ c.particleA = 0 \/ c.particleB = 0 THEN ps
    ELSE
    LET a == ps[c.particleA]
        b == ps[c.particleB]
        delta == VSub(b.position, a.position)
        currentLength == length(delta)
    IN  IF currentLength * 10 < 1 THEN ps
        ELSE
        LET diff == Div(currentLength - c.restLength, currentLength)
            correction == VMul(delta, Mul(Mul(diff, 500), c.stiffness))
        IN  IF ~a.pinned /\ ~b.pinned
            THEN LET totalMass == a.mass + b.mass
                     ratioA == Div(b.mass, totalMass)
                     ratioB == Div(a.mass, totalMass)
                 IN  [ps EXCEPT
                        ![c.particleA].position = VSub(@, VMul(correction, ratioA)),
                        ![c.particleB].position = VAdd(@, VMul(correction, ratioB))]
            ELSE IF ~a.pinned
            THEN [ps EXCEPT
                    ![c.particleA].position = VSub(@, VMul(correction, 2000))]
            ELSE IF ~b.pinned
            THEN [ps EXCEPT
                    ![c.particleB].position = VAdd(@, VMul(correction, 2000))]
            ELSE ps

VerletConstraint_solve(ps, c) ==
    IF ~c.active \/ c.particleA = 0 \/ c.particleB = 0 THEN ps
    ELSE
    LET a == ps[c.particleA]
        b == ps[c.particleB]
        delta == VSub(b.position, a.position)
        currentLength == length(delta)
    IN  IF currentLength * 10 < 1 THEN ps       \* currentLength < 0.0001f
        ELSE
        LET diff == Div(currentLength - c.restLength, currentLength)
            correction == VMul(delta, Mul(Mul(diff, 500), c.stiffness))
        IN  IF ~a.pinned /\ ~b.pinned
            THEN LET totalMass == a.mass + b.mass
                     ratioA == Div(b.mass, totalMass)
                     ratioB == Div(a.mass, totalMass)
                 IN  [ps EXCEPT
                        ![c.particleA].position = VAdd(@, VMul(correction, ratioA)),
                        ![c.particleB].position = VSub(@, VMul(correction, ratioB))]
            ELSE IF ~a.pinned
            THEN [ps EXCEPT
                    ![c.particleA].position = VAdd(@, VMul(correction, 2000))]
            ELSE IF ~b.pinned
            THEN [ps EXCEPT
                    ![c.particleB].position = VSub(@, VMul(correction, 2000))]
            ELSE ps

VerletConstraint_getCurrentLength(ps, c) ==
    IF c.particleA = 0 \/ c.particleB = 0 THEN 0
    ELSE length(VSub(ps[c.particleB].position, ps[c.particleA].position))

(* VerletConstraint3D *)

VerletConstraint3D(a, b, restLength, stiffness) ==
    [ particleA |-> a, particleB |-> b, restLength |-> restLength,
      stiffness |-> stiffness, active |-> TRUE ]

VerletConstraint3DAtRest(ps, a, b, stiffness) ==
    [ particleA |-> a, particleB |-> b,
      restLength |-> length(VSub(ps[b].position, ps[a].position)),
      stiffness |-> stiffness, active |-> TRUE ]

VerletConstraint3D_solve(ps, c) ==
    IF ~c.active \/ c.particleA = 0 \/ c.particleB = 0 THEN ps
    ELSE
    LET a == ps[c.particleA]
        b == ps[c.particleB]
        delta == VSub(b.position, a.position)
        currentLength == length(delta)
    IN  IF currentLength * 10 < 1 THEN ps       \* currentLength < 0.0001f
        ELSE
        LET diff == Div(currentLength - c.restLength, currentLength)
            correction == VMul(delta, Mul(Mul(diff, 500), c.stiffness))
        IN  IF ~a.pinned /\ ~b.pinned
            THEN LET totalMass == a.mass + b.mass
                     ratioA == Div(b.mass, totalMass)
                     ratioB == Div(a.mass, totalMass)
                 IN  [ps EXCEPT
                        ![c.particleA].position = VAdd(@, VMul(correction, ratioA)),
                        ![c.particleB].position = VSub(@, VMul(correction, ratioB))]
            ELSE IF ~a.pinned
            THEN [ps EXCEPT
                    ![c.particleA].position = VAdd(@, VMul(correction, 2000))]
            ELSE IF ~b.pinned
            THEN [ps EXCEPT
                    ![c.particleB].position = VSub(@, VMul(correction, 2000))]
            ELSE ps

VerletConstraint3D_getCurrentLength(ps, c) ==
    IF c.particleA = 0 \/ c.particleB = 0 THEN 0
    ELSE length(VSub(ps[c.particleB].position, ps[c.particleA].position))

-----------------------------------------------------------------------------
(* BendingConstraint *)

\* a product a * b that is zero is a negative zero in float arithmetic when
\* exactly one factor is negative (a zero coordinate of a difference is +0)
NegativeZero(a, b) == a * b = 0 /\ ((a < 0) # (b < 0))

\* std::atan2(ba.cross(bc), ba.dot(bc)). When one of the vectors is zero both
\* arguments are zeros, and atan2 returns pi for a dot product of -0 (both
\* of its products negative zeros) and 0 for +0
BendAngle(ba, bc) ==
    IF cross2(ba, bc) = 0 /\ dot(ba, bc) = 0
    THEN IF NegativeZero(ba[1], bc[1]) /\ NegativeZero(ba[2], bc[2])
         THEN Pi ELSE 0
    ELSE Atan2(cross2(ba, bc), dot(ba, bc))

BendingConstraint(ps, a, b, c, stiffness) ==
    LET ba == VSub(ps[a].position, ps[b].position)
        bc == VSub(ps[c].position, ps[b].position)
    IN  [ particleA |-> a, particleB |-> b, particleC |-> c,
          restAngle |-> BendAngle(ba, bc),
          stiffness |-> stiffness ]

\* while (angleDiff > 3.14159f) angleDiff -= 6.28318f;
RECURSIVE WrapDown(_)
WrapDown(a) == IF a > Pi THEN WrapDown(a - TwoPi) ELSE a

\* while (angleDiff < -3.14159f) angleDiff += 6.28318f;
RECURSIVE WrapUp(_)
WrapUp(a) == IF a < -Pi THEN WrapUp(a + TwoPi) ELSE a

\* a slip: endpoint A is rotated without looking at its pinned flag
Mut_BendingConstraint_solve(ps, bend) ==
    IF bend.particleA = 0 \/ bend.particleB = 0 \/ bend.particleC = 0 THEN ps
    ELSE
    LET a == ps[bend.particleA]
        b == ps[bend.particleB]
        c == ps[bend.particleC]
        ba == VSub(a.position, b.position)
        bc == VSub(c.position, b.position)
        currentAngle == BendAngle(ba, bc)
        angleDiff == WrapUp(WrapDown(currentAngle - bend.restAngle))
        correction == Mul(Mul(angleDiff, bend.stiffness), 500)
        movedA == [ps EXCEPT ![bend.particleA].position =
                                VAdd(b.position, rotated(ba, -correction))]
    IN  IF ~c.pinned
        THEN [movedA EXCEPT ![bend.particleC].position =
                              VAdd(b.position, rotated(bc, correction))]
        ELSE movedA

BendingConstraint_solve(ps, bend) ==
    IF bend.particleA = 0 \/ bend.particleB = 0 \/ bend.particleC = 0 THEN ps
    ELSE
    LET a == ps[bend.particleA]
        b == ps[bend.particleB]
        c == ps[bend.particleC]
        ba == VSub(a.position, b.position)
        bc == VSub(c.position, b.position)
        currentAngle == BendAngle(ba, bc)
        angleDiff == WrapUp(WrapDown(currentAngle - bend.restAngle))
        correction == Mul(Mul(angleDiff, bend.stiffness), 500)
        movedA == IF ~a.pinned
                  THEN [ps EXCEPT ![bend.particleA].position =
                                     VAdd(b.position, rotated(ba, -correction))]
                  ELSE ps
    IN  IF ~c.pinned
        THEN [movedA EXCEPT ![bend.particleC].position =
                              VAdd(b.position, rotated(bc, correction))]
        ELSE movedA

(* BendingConstraint3D *)

BendingConstraint3D(ps, a, b, c, stiffness) ==
    LET ba == VSub(ps[a].position, ps[b].position)
        bc == VSub(ps[c].position, ps[b].position)
        d == dot(normalized(ba), normalized(bc))
    IN  [ particleA |-> a, particleB |-> b, particleC |-> c,
          restAngle |-> Acos(Clamp(d, -Scale, Scale)),
          stiffness |-> stiffness ]

BendingConstraint3D_solve(ps, bend) ==
    IF bend.particleA = 0 \/ bend.particleB = 0 \/ bend.particleC = 0 THEN ps
    ELSE
    LET a == ps[bend.particleA]
        b == ps[bend.particleB]
        c == ps[bend.particleC]
        ba == VSub(a.position, b.position)
        bc == VSub(c.position, b.position)
        baLen == length(ba)
        bcLen == length(bc)
    IN  IF baLen < 1 \/ bcLen < 1 THEN ps       \* < 0.001f
        ELSE
        LET baNorm == VDiv(ba, baLen)
            bcNorm == VDiv(bc, bcLen)
            d == Clamp(dot(baNorm, bcNorm), -Scale, Scale)
            currentAngle == Acos(d)
            angleDiff == currentAngle - bend.restAngle
        IN  IF Abs(angleDiff) < 1 THEN ps       \* < 0.001f
            ELSE
            LET rawAxis == cross3(baNorm, bcNorm)
                axisLen == length(rawAxis)
            IN  IF axisLen < 1 THEN ps          \* < 0.001f
                ELSE
                LET axis == VDiv(rawAxis, axisLen)
                    correction == Mul(Mul(angleDiff, bend.stiffness), 500)
                    movedA ==
                        IF ~a.pinned
                        THEN [ps EXCEPT ![bend.particleA].position =
                                 VAdd(@, VMul(cross3(axis, ba), correction))]
                        ELSE ps
                IN  IF ~c.pinned
                    THEN [movedA EXCEPT ![bend.particleC].position =
                            VAdd(@, VMul(cross3(axis, bc), -correction))]
                    ELSE movedA

(* the constraint classes of the running dimension *)

solve(ps, c) ==
    IF Len(ps[1].position) = 2 THEN VerletConstraint_solve(ps, c)
    ELSE VerletConstraint3D_solve(ps, c)

solveBend(ps, bend) ==
    IF Len(ps[1].position) = 2 THEN BendingConstraint_solve(ps, bend)
    ELSE BendingConstraint3D_solve(ps, bend)

NewConstraint(d, a, b, restLength, stiffness) ==
    IF d = 2 THEN VerletConstraint(a, b, restLength, stiffness)
    ELSE VerletConstraint3D(a, b, restLength, stiffness)

NewBend(ps, a, b, c, stiffness) ==
    IF Len(ps[1].position) = 2 THEN BendingConstraint(ps, a, b, c, stiffness)
    ELSE BendingConstraint3D(ps, a, b, c, stiffness)

-----------------------------------------------------------------------------
(* PerlinNoise: a generator is known by its seed *)

TableSize == 256

\* a slip: std::iota fills the table from 1 on
Mut_Shuffled(seed, i) ==
    1 + (((2 * (seed % 128) + 1) * i + seed) % TableSize)

\* entry i of the table after std::iota and std::shuffle with
\* std::default_random_engine(seed): the library draws one fixed permutation
\* per seed, for which a seed-keyed bijection of 0..255 stands
Shuffled(seed, i) == ((2 * (seed % 128) + 1) * i + seed) % TableSize

\* p[i] after reseed(seed): p[256 + i] = p[i]
Perm(seed, i) ==
    IF i < TableSize THEN Shuffled(seed, i) ELSE Shuffled(seed, i - TableSize)

fade(t) == Mul(Mul(Mul(t, t), t), Mul(t, Mul(t, 6000) - 15000) + 10000)

lerp(t, a, b) == a + Mul(t, b - a)

\* grad(int hash, float x, float y, float z)
grad(hash, x, y, z) ==
    LET h == hash % 16
        u == IF h < 8 THEN x ELSE y
        v == IF h < 4 THEN y ELSE IF h = 12 \/ h = 14 THEN x ELSE z
    IN  (IF h % 2 = 1 THEN -u ELSE u) + (IF (h \div 2) % 2 = 1 THEN -v ELSE v)

\* noise(float x, float y, float z)
noise(seed, x0, y0, z0) ==
    LET fx == x0 \div Scale
        fy == y0 \div Scale
        fz == z0 \div Scale
        X == fx % 256
        Y == fy % 256
        Z == fz % 256
        x == x0 - fx * Scale
        y == y0 - fy * Scale
        z == z0 - fz * Scale
        u == fade(x)
        v == fade(y)
        w == fade(z)
        A == Perm(seed, X) + Y
        AA == Perm(seed, A) + Z
        AB == Perm(seed, A + 1) + Z
        B == Perm(seed, X + 1) + Y
        BA == Perm(seed, B) + Z
        BB == Perm(seed, B + 1) + Z
    IN  lerp(w,
            lerp(v,
                lerp(u, grad(Perm(seed, AA), x, y, z),
                        grad(Perm(seed, BA), x - Scale, y, z)),
                lerp(u, grad(Perm(seed, AB), x, y - Scale, z),
                        grad(Perm(seed, BB), x - Scale, y - Scale, z))),
            lerp(v,
                lerp(u, grad(Perm(seed, AA + 1), x, y, z - Scale),
                        grad(Perm(seed, BA + 1), x - Scale, y, z - Scale)),
                lerp(u, grad(Perm(seed, AB + 1), x, y - Scale, z - Scale),
                        grad(Perm(seed, BB + 1), x - Scale, y - Scale, z - Scale))))

\* int X = static_cast<int>(std::floor(x)) & 255
Lattice(x) == (x \div Scale) % 256

\* the indices at which noise(x, y) reads the table p
noiseReads2(seed, x, y) ==
    LET X == Lattice(x)
        Y == Lattice(y)
        A == Perm(seed, X) + Y
        AA == Perm(seed, A)
        AB == Perm(seed, A + 1)
        B == Perm(seed, X + 1) + Y
        BA == Perm(seed, B)
        BB == Perm(seed, B + 1)
    IN  { X, A, A + 1, X + 1, B, B + 1, AA, BA, AB, BB }

\* the indices at which noise(x, y, z) reads the table p
noiseReads3(seed, x, y, z) ==
    LET X == Lattice(x)
        Y == Lattice(y)
        Z == Lattice(z)
        A == Perm(seed, X) + Y
        AA == Perm(seed, A) + Z
        AB == Perm(seed, A + 1) + Z
        B == Perm(seed, X + 1) + Y
        BA == Perm(seed, B) + Z
        BB == Perm(seed, B + 1) + Z
    IN  { X, A, A + 1, X + 1, B, B + 1, AA, BA, AB, BB,
          AA + 1, BA + 1, AB + 1, BB + 1 }

\* the loop of octaveNoise(x, y, z, octaves, persistence), i octaves to go
RECURSIVE octaveLoop(_, _, _, _, _, _, _, _, _, _)
octaveLoop(seed, x, y, z, i, persistence, total, frequency, amplitude, maxValue) ==
    IF i = 0 THEN Div(total, maxValue)
    ELSE octaveLoop(seed, x, y, z, i - 1, persistence,
             total + Mul(noise(seed, Mul(x, frequency), Mul(y, frequency),
                               Mul(z, frequency)), amplitude),
             Mul(frequency, 2000), Mul(amplitude, persistence),
             maxValue + amplitude)

octaveNoise(seed, x, y, z, octaves, persistence) ==
    octaveLoop(seed, x, y, z, octaves, persistence, 0, Scale, Scale, 0)

\* a slip: the table is shuffled again without being refilled, so what it
\* held before shows through
Mut_PerlinNoise_reseed(gen, seed) == [seed |-> gen.seed + seed]

\* reseed(uint32_t seed): the table is resized, refilled by std::iota and
\* shuffled by an engine constructed from seed; nothing of the table the
\* generator held before survives
PerlinNoise_reseed(gen, seed) == [seed |-> seed]

\* PerlinNoise(uint32_t seed): reseed(seed) on an empty table
PerlinNoise(seed) == PerlinNoise_reseed([seed |-> 0], seed)

\* PerlinNoise()
PerlinNoise_default == PerlinNoise(42)

\* noise and octaveNoise as member functions of a generator
PerlinNoise_noise(gen, x, y, z) == noise(gen.seed, x, y, z)
PerlinNoise_octaveNoise(gen, x, y, z, octaves, persistence) ==
    octaveNoise(gen.seed, x, y, z, octaves, persistence)

-----------------------------------------------------------------------------
(* WindField (2D).  A gust is a record; its id field is history only.       *)

WindSeed == 12345

WindField_sampleNoise(cfg, x, y, t) ==
    << \* nx
       octaveNoise(WindSeed, Mul(x, cfg.noiseScale), Mul(y, cfg.noiseScale),
                   t, 3, 500),
       \* ny
       octaveNoise(WindSeed, Mul(x, cfg.noiseScale) + 100000,
                   Mul(y, cfg.noiseScale) + 100000, t + 50000, 3, 500) >>

\* a slip: the noise-gated gust term is not scaled by the gust strength
Mut_WindField_ambient(cfg, t, x, y) ==
    LET noiseVec == WindField_sampleNoise(cfg, x, y, t)
        turbulentWind == VMul(noiseVec, cfg.turbulence)
        baseWind == VMul(normalized(cfg.baseDirection), cfg.baseStrength)
        gustNoise == Max(0, octaveNoise(WindSeed,
                                Mul(Mul(x, cfg.noiseScale), 500),
                                Mul(Mul(y, cfg.noiseScale), 500),
                                Mul(t, 300), 2, 500))
        gustWind == VMul(normalized(cfg.baseDirection), gustNoise)
    IN  VAdd(VAdd(baseWind, VMul(turbulentWind, cfg.baseStrength)), gustWind)

\* lines 37-46: everything but the transient events
WindField_ambient(cfg, t, x, y) ==
    LET noiseVec == WindField_sampleNoise(cfg, x, y, t)
        turbulentWind == VMul(noiseVec, cfg.turbulence)
        baseWind == VMul(normalized(cfg.baseDirection), cfg.baseStrength)
        gustNoise == Max(0, octaveNoise(WindSeed,
                                Mul(Mul(x, cfg.noiseScale), 500),
                                Mul(Mul(y, cfg.noiseScale), 500),
                                Mul(t, 300), 2, 500))
        gustWind == VMul(VMul(normalized(cfg.baseDirection), gustNoise),
                         cfg.gustStrength)
    IN  VAdd(VAdd(baseWind, VMul(turbulentWind, cfg.baseStrength)), gustWind)

\* a slip: the gust is applied without the radius test
Mut_WindField_gustTerm(gust, x, y) ==
    LET toPoint == VSub(<<x, y>>, gust.position)
        dist == length(toPoint)
        falloff0 == Scale - Div(dist, gust.radius)
        falloff == Mul(falloff0, falloff0)
        timeRatio == Div(gust.elapsed, gust.duration)
        timeFalloff == Sin(Mul(timeRatio, Pi))
    IN  VMul(VMul(VMul(normalized(toPoint), gust.strength), falloff), timeFalloff)

\* lines 49-59: what one gust adds to totalWind
WindField_gustTerm(gust, x, y) ==
    LET toPoint == VSub(<<x, y>>, gust.position)
        dist == length(toPoint)
    IN  IF dist < gust.radius
        THEN LET falloff0 == Scale - Div(dist, gust.radius)
                 falloff == Mul(falloff0, falloff0)
                 timeRatio == Div(gust.elapsed, gust.duration)
                 timeFalloff == Sin(Mul(timeRatio, Pi))
             IN  VMul(VMul(VMul(normalized(toPoint), gust.strength), falloff),
                      timeFalloff)
        ELSE <<0, 0>>

\* for (const auto& gust : gusts), first i gusts
RECURSIVE WindField_gustSum(_, _, _, _)
WindField_gustSum(gs, i, x, y) ==
    IF i = 0 THEN <<0, 0>>
    ELSE VAdd(WindField_gustSum(gs, i - 1, x, y), WindField_gustTerm(gs[i], x, y))

WindField_getWindAt(cfg, t, gs, x, y) ==
    VAdd(WindField_ambient(cfg, t, x, y), WindField_gustSum(gs, Len(gs), x, y))

WindField_getStrengthAt(cfg, t, gs, position) ==
    length(WindField_getWindAt(cfg, t, gs, position[1], position[2]))

\* gusts.erase(std::remove_if(... elapsed >= duration ...))
RECURSIVE EraseExpired(_)
EraseExpired(events) ==
    IF events = <<>> THEN <<>>
    ELSE IF Head(events).elapsed >= Head(events).duration
         THEN EraseExpired(Tail(events))
         ELSE <<Head(events)>> \o EraseExpired(Tail(events))

\* for (auto& gust : gusts) gust.elapsed += dt;
Age(events, dt) ==
    [i \in 1..Len(events) |->
        [events[i] EXCEPT !.elapsed = @ + DtTimes(dt, Scale)]]

\* a slip: expired gusts are never erased
Mut_WindField_update(w, dt) ==
    [w EXCEPT !.time = @ + DtTimes(dt, w.config.timeScale),
              !.gusts = Age(w.gusts, dt)]

\* w is the whole field: [config, time, gusts, vortices]
WindField_update(w, dt) ==
    [w EXCEPT !.time = @ + DtTimes(dt, w.config.timeScale),
              !.gusts = Age(EraseExpired(w.gusts), dt)]

\* a slip: the new gust replaces the list instead of being appended
Mut_WindField_addGust(w, id, position, strength, radius, duration) ==
    [w EXCEPT !.gusts =
        << [id |-> id, position |-> position, strength |-> strength,
            radius |-> radius, duration |-> duration, elapsed |-> 0] >>]

WindField_addGust(w, id, position, strength, radius, duration) ==
    [w EXCEPT !.gusts = Append(@,
        [id |-> id, position |-> position, strength |-> strength,
         radius |-> radius, duration |-> duration, elapsed |-> 0])]

-----------------------------------------------------------------------------
(* WindField3D *)

WindSeedY == 54321
WindSeedZ == 98765

WindField3D_sampleNoise(cfg, x, y, z, t) ==
    << \* nx
       octaveNoise(WindSeed, Mul(x, cfg.noiseScale), Mul(y, cfg.noiseScale),
                   Mul(z, cfg.noiseScale) + t, 3, 500),
       \* ny * config.verticalInfluence
       Mul(octaveNoise(WindSeedY, Mul(x, cfg.noiseScale) + 100000,
                       Mul(y, cfg.noiseScale) + 100000,
                       Mul(z, cfg.noiseScale) + t + 50000, 3, 500),
           cfg.verticalInfluence),
       \* nz
       octaveNoise(WindSeedZ, Mul(x, cfg.noiseScale) + 200000,
                   Mul(y, cfg.noiseScale) + 200000,
                   Mul(z, cfg.noiseScale) + t + 100000, 3, 500) >>

CurlEpsilon == 500

\* (sampleNoise(p) - sampleNoise(q)) / (2.0f * epsilon)
WindField3D_noiseDiff(cfg, t, p, q, epsilon) ==
    VDiv(VSub(WindField3D_sampleNoise(cfg, p[1], p[2], p[3], t),
              WindField3D_sampleNoise(cfg, q[1], q[2], q[3], t)),
         Mul(2000, epsilon))

\* the Vector3D returned by getCurlAt from its three differences
WindField3D_curlOf(dFdx, dFdy, dFdz) ==
    << dFdy[3] - dFdz[2], dFdz[1] - dFdx[3], dFdx[2] - dFdy[1] >>

WindField3D_getCurlAt(cfg, t, position, epsilon) ==
    WindField3D_curlOf(
        WindField3D_noiseDiff(cfg, t,
            <<position[1] + epsilon, position[2], position[3]>>,
            <<position[1] - epsilon, position[2], position[3]>>, epsilon),
        WindField3D_noiseDiff(cfg, t,
            <<position[1], position[2] + epsilon, position[3]>>,
            <<position[1], position[2] - epsilon, position[3]>>, epsilon),
        WindField3D_noiseDiff(cfg, t,
            <<position[1], position[2], position[3] + epsilon>>,
            <<position[1], position[2], position[3] - epsilon>>, epsilon))

\* lines 42-53: everything but the transient events, summed in the order
\* baseWind + turbulentWind + gustWind + curlWind
WindField3D_ambient(cfg, t, x, y, z) ==
    VAdd(VAdd(VAdd(
        \* baseWind
        VMul(normalized(cfg.baseDirection), cfg.baseStrength),
        \* turbulentWind
        VMul(VMul(WindField3D_sampleNoise(cfg, x, y, z, t), cfg.turbulence),
             cfg.baseStrength)),
        \* gustWind, gated by gustNoise
        VMul(VMul(normalized(cfg.baseDirection),
                  Max(0, octaveNoise(WindSeed,
                             Mul(Mul(x, cfg.noiseScale), 500),
                             Mul(Mul(z, cfg.noiseScale), 500),
                             Mul(t, 300), 2, 500))),
             cfg.gustStrength)),
        \* curlWind
        VMul(WindField3D_getCurlAt(cfg, t, <<x, y, z>>, CurlEpsilon),
             cfg.curlStrength))

\* a slip: the time ratio is not turned into half a sine period
Mut_WindField3D_gustTerm(gust, x, y, z) ==
    LET toPoint == VSub(<<x, y, z>>, gust.position)
        dist == length(toPoint)
    IN  IF dist < gust.radius
        THEN LET falloff0 == Scale - Div(dist, gust.radius)
                 falloff == Mul(falloff0, falloff0)
                 timeRatio == Div(gust.elapsed, gust.duration)
                 timeFalloff == Sin(timeRatio)
             IN  VMul(VMul(VMul(normalized(gust.direction), gust.strength),
                           falloff), timeFalloff)
        ELSE <<0, 0, 0>>

\* lines 56-64: what one gust adds to totalWind
WindField3D_gustTerm(gust, x, y, z) ==
    LET toPoint == VSub(<<x, y, z>>, gust.position)
        dist == length(toPoint)
    IN  IF dist < gust.radius
        THEN LET falloff0 == Scale - Div(dist, gust.radius)
                 falloff == Mul(falloff0, falloff0)
                 timeRatio == Div(gust.elapsed, gust.duration)
                 timeFalloff == Sin(Mul(timeRatio, Pi))
             IN  VMul(VMul(VMul(normalized(gust.direction), gust.strength),
                           falloff), timeFalloff)
        ELSE <<0, 0, 0>>

\* lines 68-79: what one vortex adds to totalWind
WindField3D_vortexTerm(vortex, x, y, z) ==
    LET toPoint == VSub(<<x, y, z>>, vortex.position)
        projected == VSub(toPoint, VMul(vortex.axis, dot(toPoint, vortex.axis)))
        dist == length(projected)
    IN  IF dist < vortex.radius /\ dist * 10 > Scale      \* dist > 0.1f
        THEN LET falloff0 == Scale - Div(dist, vortex.radius)
                 falloff == Mul(falloff0, falloff0)
                 timeRatio == Div(vortex.elapsed, vortex.duration)
                 timeFalloff == Sin(Mul(timeRatio, Pi))
                 tangent == normalized(cross3(vortex.axis, projected))
             IN  VMul(VMul(VMul(tangent, vortex.strength), falloff), timeFalloff)
        ELSE <<0, 0, 0>>

RECURSIVE WindField3D_gustSum(_, _, _, _, _)
WindField3D_gustSum(gs, i, x, y, z) ==
    IF i = 0 THEN <<0, 0, 0>>
    ELSE VAdd(WindField3D_gustSum(gs, i - 1, x, y, z),
              WindField3D_gustTerm(gs[i], x, y, z))

RECURSIVE WindField3D_vortexSum(_, _, _, _, _)
WindField3D_vortexSum(vs, i, x, y, z) ==
    IF i = 0 THEN <<0, 0, 0>>
    ELSE VAdd(WindField3D_vortexSum(vs, i - 1, x, y, z),
              WindField3D_vortexTerm(vs[i], x, y, z))

WindField3D_getWindAt(cfg, t, gs, vs, x, y, z) ==
    VAdd(VAdd(WindField3D_ambient(cfg, t, x, y, z),
              WindField3D_gustSum(gs, Len(gs), x, y, z)),
         WindField3D_vortexSum(vs, Len(vs), x, y, z))

WindField3D_getStrengthAt(cfg, t, gs, vs, position) ==
    length(WindField3D_getWindAt(cfg, t, gs, vs,
                                 position[1], position[2], position[3]))

WindField3D_update(w, dt) ==
    [w EXCEPT !.time = @ + DtTimes(dt, w.config.timeScale),
              !.gusts = Age(EraseExpired(w.gusts), dt),
              !.vortices = Age(EraseExpired(w.vortices), dt)]

WindField3D_addGust(w, id, position, direction, strength, radius, duration) ==
    [w EXCEPT !.gusts = Append(@,
        [id |-> id, position |-> position, direction |-> direction,
         strength |-> strength, radius |-> radius, duration |-> duration,
         elapsed |-> 0])]

WindField3D_addVortex(w, id, position, axis, strength, radius, duration) ==
    [w EXCEPT !.vortices = Append(@,
        [id |-> id, position |-> position, axis |-> normalized(axis),
         strength |-> strength, radius |-> radius, duration |-> duration,
         elapsed |-> 0])]

(* the wind field of the running dimension *)

\* the field as one value
Wind == [config |-> windConfig, time |-> time, gusts |-> gusts,
         vortices |-> vortices]

getWindAt(w, position) ==
    IF Len(position) = 2
    THEN WindField_getWindAt(w.config, w.time, w.gusts, position[1], position[2])
    ELSE WindField3D_getWindAt(w.config, w.time, w.gusts, w.vortices,
                               position[1], position[2], position[3])

getStrengthAt(w, position) ==
    IF Len(position) = 2
    THEN WindField_getStrengthAt(w.config, w.time, w.gusts, position)
    ELSE WindField3D_getStrengthAt(w.config, w.time, w.gusts, w.vortices, position)

-----------------------------------------------------------------------------
(* Cape: the particle grid is the sequence particles, row-major; the        *)
(* particle of (row, col) is particles[getIndex(cfg, row, col)]             *)

\* row * config.width + col, counted from 1
getIndex(cfg, row, col) == row * cfg.width + col + 1

\* the row and the column of the k-th grid cell, k counted from 0
RowOf(cfg, k) == k \div cfg.width
ColOf(cfg, k) == k % cfg.width

\* static_cast<float>(row) / config.segments
rowFactor(cfg, row) == (row * Scale) \div cfg.segments

\* the x of column col on the attachment line of setAttachPoint
Cape_attachX(cfg, point, col) ==
    LET halfWidth == Mul((cfg.width - 1) * cfg.segmentLength, 300)
    IN  point[1] + Mul(col * cfg.segmentLength, 600) - halfWidth

Cape_createParticles(cfg, attachPoint) ==
    LET halfWidth == Mul((cfg.width - 1) * cfg.segmentLength, 500)
    IN  [ i \in 1..(cfg.segments * cfg.width) |->
            LET row == RowOf(cfg, i - 1)
                col == ColOf(cfg, i - 1)
                x == attachPoint[1] + Mul(col * cfg.segmentLength, 600)
                        - Mul(halfWidth, 600)
                y == attachPoint[2] + row * cfg.segmentLength
                mass == Scale + row * 100
            IN  [VerletParticle(<<x, y>>, mass, row = 0)
                    EXCEPT !.damping = cfg.damping] ]

\* a slip: the rest length of the horizontal constraint is the segment
\* length, not the 0.6 of it the particles are spaced by
Mut_Cape_cellConstraints(ps, cfg, row, col) ==
    (IF row < cfg.segments - 1
     THEN << VerletConstraint(getIndex(cfg, row, col),
                 getIndex(cfg, row + 1, col), cfg.segmentLength,
                 cfg.stiffness) >>
     ELSE <<>>)
    \o (IF col < cfg.width - 1
        THEN << VerletConstraint(getIndex(cfg, row, col),
                    getIndex(cfg, row, col + 1), cfg.segmentLength,
                    Mul(cfg.stiffness, 800)) >>
        ELSE <<>>)
    \o (IF row < cfg.segments - 1 /\ col < cfg.width - 1
        THEN << VerletConstraintAtRest(ps, getIndex(cfg, row, col),
                    getIndex(cfg, row + 1, col + 1),
                    Mul(cfg.stiffness, 500)) >>
        ELSE <<>>)
    \o (IF row < cfg.segments - 1 /\ col > 0
        THEN << VerletConstraintAtRest(ps, getIndex(cfg, row, col),
                    getIndex(cfg, row + 1, col - 1),
                    Mul(cfg.stiffness, 500)) >>
        ELSE <<>>)

\* the constraints emplaced for the cell (row, col), in the order of the code
Cape_cellConstraints(ps, cfg, row, col) ==
    (IF row < cfg.segments - 1
     THEN << VerletConstraint(getIndex(cfg, row, col),
                 getIndex(cfg, row + 1, col), cfg.segmentLength,
                 cfg.stiffness) >>
     ELSE <<>>)
    \o (IF col < cfg.width - 1
        THEN << VerletConstraint(getIndex(cfg, row, col),
                    getIndex(cfg, row, col + 1), Mul(cfg.segmentLength, 600),
                    Mul(cfg.stiffness, 800)) >>
        ELSE <<>>)
    \o (IF row < cfg.segments - 1 /\ col < cfg.width - 1
        THEN << VerletConstraintAtRest(ps, getIndex(cfg, row, col),
                    getIndex(cfg, row + 1, col + 1),
                    Mul(cfg.stiffness, 500)) >>
        ELSE <<>>)
    \o (IF row < cfg.segments - 1 /\ col > 0
        THEN << VerletConstraintAtRest(ps, getIndex(cfg, row, col),
                    getIndex(cfg, row + 1, col - 1),
                    Mul(cfg.stiffness, 500)) >>
        ELSE <<>>)

RECURSIVE Cape_constraintsFrom(_, _, _)
Cape_constraintsFrom(ps, cfg, k) ==
    IF k >= cfg.segments * cfg.width THEN <<>>
    ELSE Cape_cellConstraints(ps, cfg, RowOf(cfg, k), ColOf(cfg, k))
            \o Cape_constraintsFrom(ps, cfg, k + 1)

Cape_createConstraints(ps, cfg) == Cape_constraintsFrom(ps, cfg, 0)

\* first loop: three consecutive particles down a column
RECURSIVE Cape_columnBends(_, _, _, _)
Cape_columnBends(ps, cfg, k, stiffness) ==
    IF k >= (cfg.segments - 2) * cfg.width THEN <<>>
    ELSE << NewBend(ps, getIndex(cfg, RowOf(cfg, k), ColOf(cfg, k)),
                getIndex(cfg, RowOf(cfg, k) + 1, ColOf(cfg, k)),
                getIndex(cfg, RowOf(cfg, k) + 2, ColOf(cfg, k)), stiffness) >>
            \o Cape_columnBends(ps, cfg, k + 1, stiffness)

\* second loop: three consecutive particles along a row
RECURSIVE Cape_rowBends(_, _, _, _)
Cape_rowBends(ps, cfg, k, stiffness) ==
    IF cfg.width < 3 \/ k >= cfg.segments * (cfg.width - 2) THEN <<>>
    ELSE LET row == k \div (cfg.width - 2)
             col == k % (cfg.width - 2)
         IN  << NewBend(ps, getIndex(cfg, row, col),
                    getIndex(cfg, row, col + 1),
                    getIndex(cfg, row, col + 2), stiffness) >>
             \o Cape_rowBends(ps, cfg, k + 1, stiffness)

Cape_createBendingConstraints(ps, cfg) ==
    Cape_columnBends(ps, cfg, 0, cfg.bendStiffness)
        \o Cape_rowBends(ps, cfg, 0, Mul(cfg.bendStiffness, 500))

\* particle.applyForce(gravity * particle.getMass())
Cape_applyGravity(p, cfg) ==
    VerletParticle_applyForce(p, VMul(<<0, cfg.gravity>>, p.mass))

\* a slip: the wind force is not scaled by the row
Mut_Cape_applyWind(p, cfg, row, w) ==
    VerletParticle_applyForce(p,
        VMul(WindField_getWindAt(w.config, w.time, w.gusts,
                                 p.position[1], p.position[2]),
             cfg.windInfluence))

\* windForce = wind.getWindAt(position) * windInfluence * (0.5 + rowFactor * 0.5)
Cape_applyWind(p, cfg, row, w) ==
    VerletParticle_applyForce(p,
        VMul(VMul(WindField_getWindAt(w.config, w.time, w.gusts,
                                      p.position[1], p.position[2]),
                  cfg.windInfluence),
             500 + Mul(rowFactor(cfg, row), 500)))

\* dragForce = particle.getVelocity() * -0.5
Cape_applyDrag(p) ==
    VerletParticle_applyForce(p, VMul(VerletParticle_getVelocity(p), -500))

\* the forces of the first loop on the particle of one row
Cape_applyForces(p, cfg, row, w) ==
    IF p.pinned THEN p
    ELSE Cape_applyDrag(Cape_applyWind(Cape_applyGravity(p, cfg), cfg, row, w))

Cape_update(ps, cfg, dt, w) ==
    [ i \in 1..Len(ps) |->
        VerletParticle_update(
            Cape_applyForces(ps[i], cfg, RowOf(cfg, i - 1), w), dt) ]

RECURSIVE solveAll(_, _, _)
solveAll(ps, cs, k) ==
    IF ps = <<>> \/ k > Len(cs) THEN ps
    ELSE solveAll(solve(ps, cs[k]), cs, k + 1)

RECURSIVE solveAllBends(_, _, _)
solveAllBends(ps, bs, k) ==
    IF ps = <<>> \/ k > Len(bs) THEN ps
    ELSE solveAllBends(solveBend(ps, bs[k]), bs, k + 1)

\* a slip: the bending constraints are solved in the odd passes
Mut_solveIteration(ps, cs, bs, i) ==
    IF i % 2 = 1 THEN solveAllBends(solveAll(ps, cs, 1), bs, 1)
    ELSE solveAll(ps, cs, 1)

\* the body of the loop of solveConstraints for iteration i
solveIteration(ps, cs, bs, i) ==
    IF i % 2 = 0 THEN solveAllBends(solveAll(ps, cs, 1), bs, 1)
    ELSE solveAll(ps, cs, 1)

\* Cape::solveConstraints and Cape3D::solveConstraints, from iteration i on
RECURSIVE solveFrom(_, _, _, _, _)
solveFrom(ps, cs, bs, i, iterations) ==
    IF ps = <<>> \/ i >= iterations THEN ps
    ELSE solveFrom(solveIteration(ps, cs, bs, i), cs, bs, i + 1, iterations)

\* a slip: the loop over the constraints is missing, only the bending
\* constraints are solved
Mut_Cape_solveConstraints(ps, cs, bs, iterations) ==
    solveFrom(ps, <<>>, bs, 0, iterations)

Cape_solveConstraints(ps, cs, bs, iterations) ==
    solveFrom(ps, cs, bs, 0, iterations)

\* a slip: the pinned row is rebuilt from fresh particles
Mut_Cape_setAttachPoint(ps, cfg, point) ==
    [ i \in 1..Len(ps) |->
        IF i <= cfg.width
        THEN VerletParticle(<< Cape_attachX(cfg, point, i - 1), point[2] >>,
                            Scale, TRUE)
        ELSE ps[i] ]

\* a slip: half the width is taken as createParticles takes it, without the
\* column factor of 0.6
Mut_Cape_setAttachPointWide(ps, cfg, point) ==
    [ i \in 1..Len(ps) |->
        IF i <= cfg.width
        THEN VerletParticle_moveTo(ps[i],
                 << point[1] + Mul((i - 1) * cfg.segmentLength, 600)
                       - Mul((cfg.width - 1) * cfg.segmentLength, 500),
                    point[2] >>)
        ELSE ps[i] ]

Cape_setAttachPoint(ps, cfg, point) ==
    [ i \in 1..Len(ps) |->
        IF i <= cfg.width
        THEN VerletParticle_moveTo(ps[i],
                 << Cape_attachX(cfg, point, i - 1), point[2] >>)
        ELSE ps[i] ]

\* a slip: the pinned row is carried along by a tenth of the velocity
Mut_Cape_setAttachVelocity(ps, cfg, velocity) ==
    [ i \in 1..Len(ps) |->
        IF i <= cfg.width
        THEN VerletParticle_moveTo(ps[i],
                 VAdd(ps[i].position, VMul(velocity, 100)))
        ELSE ps[i] ]

\* a slip: the pinned row is given the whole velocity
Mut_Cape_setAttachVelocityWhole(ps, cfg, velocity) ==
    [ i \in 1..Len(ps) |->
        IF i <= cfg.width
        THEN VerletParticle_setVelocity(ps[i], velocity)
        ELSE ps[i] ]

\* the particles after setAttachVelocity (attachVelocity itself is the
\* variable of that name)
Cape_setAttachVelocity(ps, cfg, velocity) ==
    [ i \in 1..Len(ps) |->
        IF i <= cfg.width
        THEN VerletParticle_setVelocity(ps[i], VMul(velocity, 100))
        ELSE ps[i] ]

(* Cape3D *)

\* Vector3D(0, 1, 0).cross(fwd).normalized(), with its fallback
Cape3D_right(fwd) ==
    LET right == normalized(cross3(<<0, Scale, 0>>, fwd))
    IN  IF lengthSquared(right) < 10
        THEN normalized(cross3(<<Scale, 0, 0>>, fwd))
        ELSE right

Cape3D_createParticles(cfg, attachPoint, forward) ==
    LET fwd == normalized(forward)
        right == Cape3D_right(fwd)
        halfWidth == Mul((cfg.width - 1) * cfg.widthSpacing, 500)
    IN  [ i \in 1..(cfg.segments * cfg.width) |->
            LET row == RowOf(cfg, i - 1)
                col == ColOf(cfg, i - 1)
                pos == VAdd(VAdd(attachPoint,
                                 VMul(fwd, -(row * cfg.segmentLength))),
                            VMul(right, col * cfg.widthSpacing - halfWidth))
                mass == Scale + row * 80
            IN  [VerletParticle3D(pos, mass, row = 0)
                    EXCEPT !.damping = cfg.damping] ]

Cape3D_diagLen(cfg) ==
    Sqrt((Mul(cfg.segmentLength, cfg.segmentLength)
            + Mul(cfg.widthSpacing, cfg.widthSpacing)) * Scale)

Cape3D_cellConstraints(cfg, row, col) ==
    (IF row < cfg.segments - 1
     THEN << VerletConstraint3D(getIndex(cfg, row, col),
                 getIndex(cfg, row + 1, col), cfg.segmentLength,
                 cfg.stiffness) >>
     ELSE <<>>)
    \o (IF col < cfg.width - 1
        THEN << VerletConstraint3D(getIndex(cfg, row, col),
                    getIndex(cfg, row, col + 1), cfg.widthSpacing,
                    Mul(cfg.stiffness, 900)) >>
        ELSE <<>>)
    \o (IF row < cfg.segments - 1 /\ col < cfg.width - 1
        THEN << VerletConstraint3D(getIndex(cfg, row, col),
                    getIndex(cfg, row + 1, col + 1), Cape3D_diagLen(cfg),
                    Mul(cfg.stiffness, 500)) >>
        ELSE <<>>)
    \o (IF row < cfg.segments - 1 /\ col > 0
        THEN << VerletConstraint3D(getIndex(cfg, row, col),
                    getIndex(cfg, row + 1, col - 1), Cape3D_diagLen(cfg),
                    Mul(cfg.stiffness, 500)) >>
        ELSE <<>>)

RECURSIVE Cape3D_constraintsFrom(_, _)
Cape3D_constraintsFrom(cfg, k) ==
    IF k >= cfg.segments * cfg.width THEN <<>>
    ELSE Cape3D_cellConstraints(cfg, RowOf(cfg, k), ColOf(cfg, k))
            \o Cape3D_constraintsFrom(cfg, k + 1)

Cape3D_createConstraints(cfg) == Cape3D_constraintsFrom(cfg, 0)

Cape3D_createBendingConstraints(ps, cfg) ==
    Cape_columnBends(ps, cfg, 0, cfg.bendStiffness)
        \o Cape_rowBends(ps, cfg, 0, Mul(cfg.bendStiffness, 600))

Cape3D_getNormal(ps, cfg, row0, col0) ==
    LET row == Clamp(row0, 1, cfg.segments - 2)
        col == Clamp(col0, 1, cfg.width - 2)
        up == ps[getIndex(cfg, row - 1, col)].position
        down == ps[getIndex(cfg, row + 1, col)].position
        left == ps[getIndex(cfg, row, col - 1)].position
        right == ps[getIndex(cfg, row, col + 1)].position
        tangentV == normalized(VSub(down, up))
        tangentH == normalized(VSub(right, left))
    IN  normalized(cross3(tangentH, tangentV))

\* what std::clamp(v, lo, hi) may return: its value is defined for lo <= hi
\* only, and with hi < lo the call is undefined, the builds at hand
\* returning lo or hi
ClampOutcomes(v, lo, hi) ==
    IF lo <= hi THEN { Clamp(v, lo, hi) } ELSE { lo, hi }

\* the grid places whose particles getNormal reads, row and col being the
\* clamped arguments: center, up, down, left, right
Cape3D_getNormalReads(row, col) ==
    { <<row, col>>, <<row - 1, col>>, <<row + 1, col>>,
      <<row, col - 1>>, <<row, col + 1>> }

\* the grid places whose particles getAverageNormal reads through getNormal
Cape3D_getAverageNormalReads(cfg) ==
    UNION { Cape3D_getNormalReads(row, col) :
              row \in 1..(cfg.segments - 2), col \in 1..(cfg.width - 2) }

\* getAverageNormal(): the normalized mean of the inner normals, (0, 0, 1)
\* when there is none
Cape3D_getAverageNormal(ps, cfg) ==
    LET inner == { <<row, col>> \in (1..(cfg.segments - 2))
                                      \X (1..(cfg.width - 2)) : TRUE }
        normals == [ rc \in inner |-> Cape3D_getNormal(ps, cfg, rc[1], rc[2]) ]
        sum == [ j \in 1..3 |->
                   LET RECURSIVE Add(_)
                       Add(S) == IF S = {} THEN 0
                                 ELSE LET rc == CHOOSE rc \in S : TRUE
                                      IN  normals[rc][j] + Add(S \ {rc})
                   IN  Add(inner) ]
    IN  IF inner = {} THEN <<0, 0, Scale>>
        ELSE normalized(VDiv(sum, Cardinality(inner) * Scale))

\* particle.applyForce(gravity * particle.getMass())
Cape3D_applyGravity(p, cfg) ==
    VerletParticle3D_applyForce(p, VMul(<<0, -cfg.gravity, 0>>, p.mass))

\* windForce = wind.getWindAt(position) * windInfluence * (0.3 + rowFactor * 0.7)
Cape3D_applyWind(p, cfg, row, w) ==
    VerletParticle3D_applyForce(p,
        VMul(VMul(WindField3D_getWindAt(w.config, w.time, w.gusts, w.vortices,
                      p.position[1], p.position[2], p.position[3]),
                  cfg.windInfluence),
             300 + Mul(rowFactor(cfg, row), 700)))

\* moveForce = velocity * (-0.08 * rowFactor)
Cape3D_applyMove(p, cfg, row, velocity) ==
    VerletParticle3D_applyForce(p,
        VMul(velocity, Mul(-80, rowFactor(cfg, row))))

\* sway = sin(row * 0.5 + dt * 3) * velocity.length() * 0.002
Cape3D_sway(row, dt, velocity) ==
    Mul(Mul(Sin(Mul(row * Scale, 500) + DtTimes(dt, 3000)), length(velocity)),
        2)

\* swayForce = forward.cross(Vector3D(0, 1, 0)) * sway
Cape3D_applySway(p, row, dt, velocity, forward) ==
    VerletParticle3D_applyForce(p,
        VMul(cross3(forward, <<0, Scale, 0>>), Cape3D_sway(row, dt, velocity)))

\* the drag of a particle whose velocity is vel and whose speed is speed
Cape3D_dragAt(p, vel, speed) ==
    IF speed * 10 > Scale
    THEN VerletParticle3D_applyForce(p,
             VMul(normalized(vel), Mul(Mul(Mul(-150, speed), speed), 10)))
    ELSE p

Cape3D_dragOf(p, vel) == Cape3D_dragAt(p, vel, length(vel))

\* if (speed > 0.1f) applyForce(vel.normalized() * (-0.15 * speed * speed * 0.01))
Cape3D_applyDrag(p) == Cape3D_dragOf(p, VerletParticle3D_getVelocity(p))

\* the forces of the first loop of Cape3D::update on one particle
Cape3D_applyForces(p, cfg, row, dt, w, velocity, forward) ==
    IF p.pinned THEN p
    ELSE Cape3D_applyDrag(
             Cape3D_applySway(
                 Cape3D_applyMove(
                     Cape3D_applyWind(Cape3D_applyGravity(p, cfg), cfg, row, w),
                     cfg, row, velocity),
                 row, dt, velocity, forward))

\* dragForce = normal * (normalComponent * aerodynamicDrag * |normalComponent|)
Cape3D_aeroDrag(p, cfg, normal, normalComponent) ==
    VerletParticle3D_applyForce(p,
        VMul(normal, Mul(Mul(normalComponent, cfg.aerodynamicDrag),
                         Abs(normalComponent))))

\* the lift along liftDir, applied when the wind meets the front of the cloth
Cape3D_aeroLiftAlong(p, cfg, normalComponent, liftDir) ==
    IF normalComponent > 0 /\ lengthSquared(liftDir) > 10
    THEN VerletParticle3D_applyForce(p,
             VMul(normalized(liftDir),
                  Mul(Mul(normalComponent, normalComponent),
                      cfg.liftCoefficient)))
    ELSE p

\* liftDir = Vector3D(0, 1, 0) - normal * normal.y
Cape3D_aeroLift(p, cfg, normal, normalComponent) ==
    Cape3D_aeroLiftAlong(p, cfg, normalComponent,
        VSub(<<0, Scale, 0>>, VMul(normal, normal[2])))

Cape3D_aeroForces(p, cfg, normal, normalComponent) ==
    Cape3D_aeroLift(Cape3D_aeroDrag(p, cfg, normal, normalComponent),
                    cfg, normal, normalComponent)

\* normalComponent = (windVel - particle.getVelocity()).dot(normal)
Cape3D_aeroAcross(p, cfg, w, normal) ==
    Cape3D_aeroForces(p, cfg, normal,
        dot(VSub(WindField3D_getWindAt(w.config, w.time, w.gusts, w.vortices,
                     p.position[1], p.position[2], p.position[3]),
                 VerletParticle3D_getVelocity(p)),
            normal))

\* the body of the loops of applyAerodynamics for the particle (row, col);
\* all is the grid the normals are read from
Cape3D_aerodynamicsAt(all, p, cfg, row, col, w) ==
    IF p.pinned THEN p
    ELSE Cape3D_aeroAcross(p, cfg, w, Cape3D_getNormal(all, cfg, row, col))

\* rows 1 .. segments - 2 and columns 1 .. width - 2 only
Cape3D_applyAerodynamics(ps, cfg, w) ==
    [ i \in 1..Len(ps) |->
        IF /\ RowOf(cfg, i - 1) >= 1 /\ RowOf(cfg, i - 1) < cfg.segments - 1
           /\ ColOf(cfg, i - 1) >= 1 /\ ColOf(cfg, i - 1) < cfg.width - 1
        THEN Cape3D_aerodynamicsAt(ps, ps[i], cfg, RowOf(cfg, i - 1),
                                   ColOf(cfg, i - 1), w)
        ELSE ps[i] ]

\* the first loop of Cape3D::update
Cape3D_forceAll(ps, cfg, dt, w, velocity, forward) ==
    [ i \in 1..Len(ps) |->
        Cape3D_applyForces(ps[i], cfg, RowOf(cfg, i - 1), dt, w, velocity,
                           forward) ]

\* the last loop of Cape3D::update
Cape3D_integrate(ps, dt) ==
    [ i \in 1..Len(ps) |-> VerletParticle3D_update(ps[i], dt) ]

Cape3D_update(ps, cfg, dt, w, velocity, forward) ==
    Cape3D_integrate(
        Cape3D_applyAerodynamics(
            Cape3D_forceAll(ps, cfg, dt, w, velocity, forward), cfg, w),
        dt)

Cape3D_solveConstraints(ps, cs, bs, iterations) ==
    solveFrom(ps, cs, bs, 0, iterations)

\* the position of column col on the attachment line
Cape3D_attachPos(cfg, point, forward, col) ==
    LET right == Cape3D_right(normalized(forward))
        halfWidth == Mul((cfg.width - 1) * cfg.widthSpacing, 500)
    IN  VAdd(point, VMul(right, col * cfg.widthSpacing - halfWidth))

Cape3D_setAttachPoint(ps, cfg, point, forward) ==
    [ i \in 1..Len(ps) |->
        IF i <= cfg.width
        THEN VerletParticle3D_moveTo(ps[i],
                 Cape3D_attachPos(cfg, point, forward, i - 1))
        ELSE ps[i] ]

Cape3D_setAttachVelocity(ps, cfg, velocity) ==
    [ i \in 1..Len(ps) |->
        IF i <= cfg.width
        THEN VerletParticle3D_setVelocity(ps[i], VMul(velocity, 50))
        ELSE ps[i] ]

-----------------------------------------------------------------------------
(* Values shared by the specifications *)

Vec(d, x, y, z) == IF d = 2 THEN <<x, y>> ELSE <<x, y, z>>

NoCapeConfig == [segments |-> 0, width |-> 0]

NoWindConfig == [baseStrength |-> 0]

\* the bookkeeping of the other specifications is not in use
IdleAux ==
    /\ initial = <<>>
    /\ lastArg = <<>>
    /\ twin = <<>>
    /\ forceSum = <<>>

\* no cape has been built
IdleCape ==
    /\ constraints = <<>>
    /\ bendConstraints = <<>>
    /\ config = NoCapeConfig
    /\ attachVelocity = Zero(dim)
    /\ currentForward = Zero(dim)
    /\ attachLine = <<>>

\* no wind field has been built
IdleWind ==
    /\ windConfig = NoWindConfig
    /\ time = 0
    /\ gusts = <<>>
    /\ vortices = <<>>
    /\ nextId = 1
    /\ removed = {}
    /\ windBefore = <<>>

-----------------------------------------------------------------------------
(* SpecParticle: one particle driven through its public methods *)

ParticlePositions(d) == { Vec(d, 0, 0, 0), Vec(d, 3000, -2000, 1000) }
Masses == { 1000, 3000 }
Dampings == { 990, 1000 }
Forces(d) == { Vec(d, 0, -10000, 0), Vec(d, 5000, 3000, -2000) }
TimeSteps == { <<1, 10>>, <<1, 2>> }
Velocities(d) == { Vec(d, 0, 0, 0), Vec(d, 400, -200, 100) }

InitParticle ==
    /\ dim \in {2, 3}
    /\ \E pos \in ParticlePositions(dim), mass \in Masses,
          pinned \in BOOLEAN, damping \in Dampings :
          particles = << [NewParticle(pos, mass, pinned) EXCEPT !.damping = damping] >>
    /\ before = particles
    /\ IdleCape
    /\ IdleWind
    /\ initial = <<>>
    /\ lastArg = <<>>
    /\ twin = <<>>
    /\ forceSum = Zero(dim)
    /\ lastOp = "construct"
    /\ steps = 0

ParticleStep(op, arg, p) ==
    /\ steps < MaxSteps
    /\ particles' = << p >>
    /\ before' = particles
    /\ lastOp' = op
    /\ lastArg' = arg
    /\ steps' = steps + 1
    /\ UNCHANGED <<dim, capeVars, windVars, initial, twin>>

ParticleApplyForce ==
    \E f \in Forces(dim) :
        /\ ParticleStep("applyForce", f, applyForce(particles[1], f))
        /\ forceSum' = VAdd(forceSum, VDiv(f, particles[1].mass))

\* lastArg keeps the time step and the forces applied since the update before
ParticleUpdate ==
    \E dt \in TimeSteps :
        /\ ParticleStep("update", [dt |-> dt, forces |-> forceSum],
                        update(particles[1], dt))
        /\ forceSum' = Zero(dim)

ParticleSetVelocity ==
    \E v \in Velocities(dim) :
        /\ ParticleStep("setVelocity", v, setVelocity(particles[1], v))
        /\ UNCHANGED forceSum

ParticlePin ==
    /\ ParticleStep("pin", <<>>, pin(particles[1]))
    /\ UNCHANGED forceSum

ParticleUnpin ==
    /\ ParticleStep("unpin", <<>>, unpin(particles[1]))
    /\ UNCHANGED forceSum

ParticleMoveTo ==
    \E pos \in ParticlePositions(dim) :
        /\ ParticleStep("moveTo", pos, moveTo(particles[1], pos))
        /\ UNCHANGED forceSum

NextParticle ==
    \/ ParticleApplyForce
    \/ ParticleUpdate
    \/ ParticleSetVelocity
    \/ ParticlePin
    \/ ParticleUnpin
    \/ ParticleMoveTo

SpecParticle == InitParticle /\ [][NextParticle]_vars

\* C1: on a pinned particle (2D or 3D), applyForce changes nothing at all and
\* update changes neither position nor previousPosition and leaves the
\* acceleration accumulator zero.
C1_PinnedParticleFixed ==
    (before[1].pinned /\ lastOp \in {"applyForce", "update"}) =>
        /\ particles[1].position = before[1].position
        /\ particles[1].previousPosition = before[1].previousPosition
        /\ lastOp = "applyForce" => particles[1] = before[1]
        /\ lastOp = "update" => particles[1].acceleration = Zero(dim)

\* a pinned particle with a pending force and a nonzero inferred velocity has
\* been updated
C1_Witness ==
    /\ particles[1].pinned
    /\ lastOp = "update"
    /\ particles[1].position # particles[1].previousPosition
    /\ before[1].acceleration # Zero(dim)

\* position + (position - previousPosition) * damping + acceleration * dt^2
Integrated(p, acceleration, dt) ==
    VAdd(VAdd(p.position,
              VMul(VSub(p.position, p.previousPosition), p.damping)),
         VDtSq(acceleration, dt))

\* the particle of the integration scenario, its force applied
ScenarioParticle ==
    [NewParticle(Vec(dim, 0, 0, 0), 1000, FALSE)
        EXCEPT !.damping = 1000, !.acceleration = Vec(dim, 0, -10000, 0)]

\* C13 as stated: update on an unpinned particle (2D or 3D) stores the old
\* position in previousPosition, moves the particle by its damped inferred
\* velocity plus dt^2 times the sum of f / mass over all applyForce calls
\* since the previous update, and clears the accumulator.
C13_UpdateIntegratesAllForces ==
    (lastOp = "update" /\ ~before[1].pinned) =>
        /\ particles[1].previousPosition = before[1].position
        /\ particles[1].position
              = Integrated(before[1], lastArg.forces, lastArg.dt)
        /\ particles[1].acceleration = Zero(dim)

\* C13: update on an unpinned particle (2D or 3D) stores the old position in
\* previousPosition, moves the particle by its damped inferred velocity plus
\* dt^2 times the accumulator, and clears the accumulator; the accumulator
\* holds the sum of f / mass over the applyForce calls made while the
\* particle was unpinned since the previous update. The particle of the
\* integration scenario ends at (0, -0.1), and an update with no new force
\* adds no acceleration term.
C13_UpdateIntegrates ==
    /\ (lastOp = "update" /\ ~before[1].pinned) =>
            /\ particles[1].previousPosition = before[1].position
            /\ particles[1].position
                  = Integrated(before[1], before[1].acceleration, lastArg.dt)
            /\ particles[1].acceleration = Zero(dim)
            /\ particles[1].mass = before[1].mass
            /\ particles[1].damping = before[1].damping
            /\ ~particles[1].pinned
            /\ before[1].acceleration = Zero(dim)
                  => particles[1].position
                        = VAdd(before[1].position,
                               VMul(VSub(before[1].position,
                                         before[1].previousPosition),
                                    before[1].damping))
            /\ (before[1] = ScenarioParticle /\ lastArg.dt = <<1, 10>>)
                  => particles[1].position = Vec(dim, 0, -100, 0)
    /\ lastOp = "construct" => particles[1].acceleration = Zero(dim)
    /\ lastOp = "applyForce" =>
            particles[1].acceleration
                = IF before[1].pinned THEN before[1].acceleration
                  ELSE VAdd(before[1].acceleration,
                            VDiv(lastArg, before[1].mass))
    /\ lastOp \in {"setVelocity", "pin", "unpin", "moveTo"} =>
            particles[1].acceleration = before[1].acceleration

\* an unpinned moving particle with a damping below 1 and a pending force has
\* been updated
C13_Witness ==
    /\ lastOp = "update"
    /\ ~before[1].pinned
    /\ before[1].damping = 990
    /\ before[1].acceleration # Zero(dim)
    /\ before[1].position # before[1].previousPosition
    /\ particles[1].position # before[1].position

\* C20: when pin() has just been called, on a particle that was moving or
\* not, the previous position equals the position and getVelocity() returns
\* the zero vector.
C20_PinStopsParticle ==
    lastOp = "pin" =>
        /\ particles[1].previousPosition = particles[1].position
        /\ getVelocity(particles[1]) = Zero(dim)

\* what pin() does: the flag is set and the inferred velocity is the one the
\* particle had
PinKeepsVelocity ==
    lastOp = "pin" =>
        /\ particles[1].pinned
        /\ getVelocity(particles[1]) = getVelocity(before[1])

\* pin() has just been called on a moving particle, which still reports its
\* velocity
PinnedMoving ==
    /\ lastOp = "pin"
    /\ ~before[1].pinned
    /\ getVelocity(before[1]) # Zero(dim)
    /\ getVelocity(particles[1]) # Zero(dim)

\* C21: moveTo(p) puts the particle at p; on a pinned particle it also puts
\* previousPosition at p, so getVelocity() is zero whatever it was; on an
\* unpinned particle it shifts previousPosition by the same delta, so
\* getVelocity() is what it was before the call. The acceleration
\* accumulator, the mass, the damping and the pinned flag stay as they were.
C21_MoveToTeleports ==
    lastOp = "moveTo" =>
        /\ particles[1].position = lastArg
        /\ particles[1].pinned
              => /\ particles[1].previousPosition = lastArg
                 /\ getVelocity(particles[1]) = Zero(dim)
        /\ ~particles[1].pinned
              => /\ getVelocity(particles[1]) = getVelocity(before[1])
                 /\ particles[1].previousPosition
                       = VAdd(before[1].previousPosition,
                              VSub(lastArg, before[1].position))
        /\ particles[1].acceleration = before[1].acceleration
        /\ particles[1].pinned = before[1].pinned
        /\ particles[1].mass = before[1].mass
        /\ particles[1].damping = before[1].damping

\* a moving unpinned particle with a pending force has been moved to another
\* place
C21_Witness ==
    /\ lastOp = "moveTo"
    /\ ~particles[1].pinned
    /\ getVelocity(before[1]) # Zero(dim)
    /\ before[1].acceleration # Zero(dim)
    /\ particles[1].position # before[1].position

-----------------------------------------------------------------------------
(* SpecConstraint: a rig of three particles A, B, C with one distance       *)
(* constraint A-B and one bending constraint A-B-C, solved in any order     *)
(* while outside code repositions the particles                             *)

RigGeometries(d) ==
    { << Vec(d, 0, 0, 0), Vec(d, 3000, 4000, 0), Vec(d, 6000, 0, 2000) >>,
      << Vec(d, 0, 0, 0), Vec(d, 0, 8000, 0), Vec(d, 1000, 16000, -1000) >> }
RigTargets(d) == { Vec(d, 0, 0, 0), Vec(d, 4000, -3000, 1000) }
RigMasses == { 1000, 3000 }
RigStiffness == { 500, 1000 }
RigRestLength == 4000
RigBendStiffness == 500

InitConstraint ==
    /\ dim \in {2, 3}
    /\ \E g \in RigGeometries(dim), pinA \in BOOLEAN, pinB \in BOOLEAN,
          pinC \in BOOLEAN, massB \in RigMasses, stiffness \in RigStiffness,
          active \in BOOLEAN :
          /\ particles = << NewParticle(g[1], 1000, pinA),
                            NewParticle(g[2], massB, pinB),
                            NewParticle(g[3], 1000, pinC) >>
          /\ constraints =
                << [NewConstraint(dim, 1, 2, RigRestLength, stiffness)
                        EXCEPT !.active = active] >>
    /\ bendConstraints = << NewBend(particles, 1, 2, 3, RigBendStiffness) >>
    /\ before = particles
    /\ config = NoCapeConfig
    /\ attachVelocity = Zero(dim)
    /\ currentForward = Zero(dim)
    /\ attachLine = <<>>
    /\ IdleWind
    /\ IdleAux
    /\ lastOp = "construct"
    /\ steps = 0

RigStep(op, ps) ==
    /\ steps < MaxRigSteps
    /\ particles' = ps
    /\ before' = particles
    /\ lastOp' = op
    /\ steps' = steps + 1
    /\ UNCHANGED <<dim, capeVars, windVars, auxVars>>

RigSolve == RigStep("solve", solve(particles, constraints[1]))

RigSolveBend == RigStep("solveBend", solveBend(particles, bendConstraints[1]))

RigMoveTo ==
    \E i \in 1..3, pos \in RigTargets(dim) :
        RigStep("moveTo", [particles EXCEPT ![i] = moveTo(@, pos)])

NextConstraint ==
    \/ RigSolve
    \/ RigSolveBend
    \/ RigMoveTo

SpecConstraint == InitConstraint /\ [][NextConstraint]_vars

\* every field but the position of particle i is as before the last call
OnlyPositionMay(i) ==
    [particles[i] EXCEPT !.position = before[i].position] = before[i]

\* C3: a distance-constraint solve (2D or 3D) leaves every pinned endpoint and
\* every particle that is not an endpoint exactly as it was, so with both
\* endpoints pinned nothing moves and with one pinned only the other moves;
\* an inactive constraint changes nothing.
C3_SolveKeepsPinned ==
    lastOp = "solve" =>
        LET c == constraints[1]
        IN  /\ \A i \in 1..Len(particles) :
                  /\ OnlyPositionMay(i)
                  /\ (before[i].pinned \/ i \notin {c.particleA, c.particleB})
                        => particles[i] = before[i]
            /\ ~c.active => particles = before

\* an active constraint with exactly one pinned endpoint has been solved and
\* has moved the other endpoint
C3_Witness ==
    /\ lastOp = "solve"
    /\ constraints[1].active
    /\ particles[1].pinned
    /\ ~particles[2].pinned
    /\ particles[2].position # before[2].position

\* C4: a bending-constraint solve (2D or 3D) never moves the pivot B, pinned or
\* not, and never moves a pinned endpoint A or C; only the positions of
\* unpinned endpoints can change.
C4_BendKeepsPivotAndPinned ==
    lastOp = "solveBend" =>
        LET bend == bendConstraints[1]
        IN  /\ particles[bend.particleB] = before[bend.particleB]
            /\ \A i \in 1..Len(particles) :
                  /\ OnlyPositionMay(i)
                  /\ before[i].pinned => particles[i] = before[i]

\* a bend with a pinned endpoint A and an unpinned pivot has been solved and
\* has rotated the free endpoint C
C4_Witness ==
    /\ lastOp = "solveBend"
    /\ particles[1].pinned
    /\ ~particles[2].pinned
    /\ ~particles[3].pinned
    /\ particles[3].position # before[3].position

\* particles i and j stood closer than the epsilon of the solvers before the
\* last call
Coincided(i, j) == before[i].position = before[j].position

\* C26: a solve on degenerate geometry does nothing: a distance constraint
\* whose endpoints are closer than the epsilon moves no particle, and a
\* bending constraint, 2D or 3D, moves no particle when A or C stands on the
\* pivot B, whatever the rest angle and wherever the third particle is.
C26_DegenerateSolveSkips ==
    /\ (lastOp = "solve" /\ Coincided(1, 2)) => particles = before
    /\ (lastOp = "solveBend" /\ (Coincided(1, 2) \/ Coincided(3, 2)))
          => particles = before

\* what the solvers do: the distance constraints and the 3D bending
\* constraint skip degenerate geometry; the 2D bending constraint leaves the
\* endpoint that stands on the pivot there, since a zero offset rotates to
\* itself, and rotates the other endpoint about the pivot
DegenerateBend2DRotates ==
    /\ (lastOp = "solve" /\ Coincided(1, 2)) => particles = before
    /\ (lastOp = "solveBend" /\ dim = 3 /\ (Coincided(1, 2) \/ Coincided(3, 2)))
          => particles = before
    /\ (lastOp = "solveBend" /\ dim = 2) =>
          /\ Coincided(1, 2) => particles[1] = before[1]
          /\ Coincided(3, 2) => particles[3] = before[3]

\* a 2D bending constraint whose endpoint A stood on the pivot has moved the
\* endpoint C
DegenerateBendMoved ==
    /\ lastOp = "solveBend"
    /\ dim = 2
    /\ Coincided(1, 2)
    /\ particles[3].position # before[3].position

\* the displacement of particle i in the last call
Moved(i) == VSub(particles[i].position, before[i].position)

\* the signed length error of the rig's distance constraint before the last call
ErrorBefore ==
    length(VSub(before[2].position, before[1].position))
        - constraints[1].restLength

\* C11: one solve of a distance constraint with both particles unpinned moves
\* A towards B and B towards A when stretched (apart when compressed), along
\* the line joining them, by amounts in inverse proportion to their masses
\* (each displacement rounded to the arithmetic's last digit); with masses 1
\* and 3 the mass-1 particle moves 3 times as far as the mass-3 particle.
C11_InverseMassSplit ==
    (/\ lastOp = "solve" /\ constraints[1].active
     /\ ~before[1].pinned /\ ~before[2].pinned) =>
        LET delta == VSub(before[2].position, before[1].position)
            mA == before[1].mass
            mB == before[2].mass
        IN  \A i \in 1..dim :
                /\ Moved(1)[i] * Sign(delta[i]) * Sign(ErrorBefore) >= 0
                /\ Moved(2)[i] * Sign(delta[i]) * Sign(ErrorBefore) <= 0
                /\ Abs(Moved(1)[i] * mA + Moved(2)[i] * mB) <= Max(mA, mB)
                /\ (mA = 1000 /\ mB = 3000)
                      => Abs(Moved(1)[i] + 3 * Moved(2)[i]) <= 3
                /\ \A j \in 1..dim :
                      Abs(Moved(1)[i] * delta[j] - Moved(1)[j] * delta[i])
                          <= 2 * (Abs(delta[i]) + Abs(delta[j]))

\* a stretched constraint between an unpinned particle of mass 1 and an
\* unpinned particle of mass 3 has been solved and has moved both
C11_Witness ==
    /\ lastOp = "solve" /\ constraints[1].active
    /\ ~before[1].pinned /\ ~before[2].pinned
    /\ before[1].mass = 1000 /\ before[2].mass = 3000
    /\ ErrorBefore > 0
    /\ Moved(2) # Zero(dim)
    /\ \E i \in 1..dim : Abs(Moved(1)[i]) > 2 * Abs(Moved(2)[i])

-----------------------------------------------------------------------------
(* SpecSolve: one distance constraint between two particles that nothing    *)
(* else touches, solved over and over                                       *)

\* consecutive solves of the isolated constraint
MaxSolves == 20

\* length errors below 0.2 are beneath the precision of the arithmetic
Resolution == 200

\* B at 20 from A, B at 5 (13 in 3D) from A, and B on top of A
PairGeometries(d) ==
    { << Vec(d, 0, 0, 0), Vec(d, 12000, 16000, 0) >>,
      << Vec(d, 1000, 2000, 0), Vec(d, 4000, 6000, 12000) >>,
      << Vec(d, 1000, 2000, 3000), Vec(d, 1000, 2000, 3000) >> }
PairRestLengths == { 2500, 10000 }
PairStiffness == { 250, 500, 1000 }

InitSolve ==
    /\ dim \in {2, 3}
    /\ \E g \in PairGeometries(dim), pinA \in BOOLEAN, pinB \in BOOLEAN,
          massB \in RigMasses, restLength \in PairRestLengths,
          stiffness \in PairStiffness :
          /\ particles = << NewParticle(g[1], 1000, pinA),
                            NewParticle(g[2], massB, pinB) >>
          /\ constraints = << NewConstraint(dim, 1, 2, restLength, stiffness) >>
    /\ bendConstraints = <<>>
    /\ before = particles
    /\ initial = [particles |-> particles, constraints |-> constraints,
                  bendConstraints |-> bendConstraints]
    /\ lastArg = <<>>
    /\ twin = <<>>
    /\ forceSum = <<>>
    /\ config = NoCapeConfig
    /\ attachVelocity = Zero(dim)
    /\ currentForward = Zero(dim)
    /\ attachLine = <<>>
    /\ IdleWind
    /\ lastOp = "construct"
    /\ steps = 0

\* constraint.solve()
SolveAgain ==
    /\ steps < MaxSolves
    /\ particles' = solve(particles, constraints[1])
    /\ before' = particles
    /\ lastOp' = "solve"
    /\ steps' = steps + 1
    /\ UNCHANGED <<dim, capeVars, windVars, auxVars>>

NextSolve == SolveAgain

SpecSolve == InitSolve /\ [][NextSolve]_vars

\* |currentLength - restLength| of the constraint over the particles ps
LengthError(ps) ==
    Abs(length(VSub(ps[2].position, ps[1].position)) - constraints[1].restLength)

\* the particles of ps are further apart than the epsilon of solve
Apart(ps) == length(VSub(ps[2].position, ps[1].position)) * 10 >= 1

\* C12 as stated: every solve of the isolated constraint makes a length error
\* the arithmetic can resolve strictly smaller, and with stiffness 1 the error
\* is below 1% of the original error after 20 solves.
C12_ErrorAlwaysShrinks ==
    /\ (lastOp = "solve" /\ LengthError(before) > Resolution)
          => LengthError(particles) < LengthError(before)
    /\ (steps >= 20 /\ constraints[1].stiffness = 1000)
          => LengthError(particles) * 100 < LengthError(initial.particles)

\* C12: while the two particles do not coincide and at least one of them is
\* unpinned, every solve with a stiffness in (0, 1] makes a length error the
\* arithmetic can resolve strictly smaller and never makes the error grow
\* beyond that resolution; with stiffness 1 the error is below 1% of the
\* original error after 20 solves.
C12_ErrorShrinks ==
    (Apart(initial.particles) /\ ~(particles[1].pinned /\ particles[2].pinned)) =>
        /\ Apart(particles)
        /\ (lastOp = "solve" /\ LengthError(before) > Resolution)
              => LengthError(particles) < LengthError(before)
        /\ lastOp = "solve"
              => LengthError(particles) <= Max(LengthError(before), Resolution)
        /\ (steps >= 20 /\ constraints[1].stiffness = 1000)
              => LengthError(particles) * 100 < LengthError(initial.particles)

\* a constraint of stiffness 1 between two unpinned particles, stretched to
\* twice its rest length, has been solved 20 times
C12_Witness ==
    /\ steps = 20 /\ lastOp = "solve"
    /\ constraints[1].stiffness = 1000
    /\ ~particles[1].pinned /\ ~particles[2].pinned
    /\ LengthError(initial.particles) = 10000
    /\ particles[1].position # initial.particles[1].position

\* the length error one solve leaves is the share (1 - fraction) of the error
\* before it, to the resolution of the arithmetic
Leaves(fraction) ==
    Abs(LengthError(particles) - Mul(Scale - fraction, LengthError(before)))
        <= Resolution

\* C19: one solve of a distance constraint of stiffness s, between two
\* particles that do not coincide and are not both pinned, leaves a length
\* error of (1 - s) times the error before the call, and with stiffness 1 it
\* restores the rest length, whether one endpoint is pinned or none is.
C19_StiffnessIsFraction ==
    (/\ lastOp = "solve"
     /\ Apart(before)
     /\ ~(particles[1].pinned /\ particles[2].pinned)) =>
        /\ Leaves(constraints[1].stiffness)
        /\ constraints[1].stiffness = 1000 => LengthError(particles) <= Resolution

\* what solve does: with exactly one endpoint pinned it corrects the share s
\* of the error, with both endpoints unpinned the share s / 2
SolveCorrects ==
    (/\ lastOp = "solve"
     /\ Apart(before)
     /\ ~(particles[1].pinned /\ particles[2].pinned)) =>
        IF particles[1].pinned \/ particles[2].pinned
        THEN Leaves(constraints[1].stiffness)
        ELSE Leaves(constraints[1].stiffness \div 2)

\* a first solve of a stretched constraint of stiffness 1 between two
\* unpinned particles has left half of the error
HalfLeft ==
    /\ lastOp = "solve" /\ steps = 1
    /\ constraints[1].stiffness = 1000
    /\ ~particles[1].pinned /\ ~particles[2].pinned
    /\ LengthError(before) = 10000
    /\ LengthError(particles) = 5000

-----------------------------------------------------------------------------
(* SpecWind: a wind field (2D or 3D) that is updated every frame while      *)
(* outside code adds gusts and vortices                                     *)

\* all strengths zero, and the default configurations of the two classes
WindConfigs(d) ==
    IF d = 2
    THEN { [baseStrength |-> 0, gustStrength |-> 0, turbulence |-> 0,
            noiseScale |-> 250, timeScale |-> 500, baseDirection |-> <<1000, 200>>],
           [baseStrength |-> 50000, gustStrength |-> 80000, turbulence |-> 300,
            noiseScale |-> 8, timeScale |-> 500, baseDirection |-> <<1000, 200>>] }
    ELSE { [baseStrength |-> 0, gustStrength |-> 0, turbulence |-> 0,
            noiseScale |-> 250, timeScale |-> 400,
            baseDirection |-> <<1000, 0, 200>>, verticalInfluence |-> 300,
            curlStrength |-> 0],
           [baseStrength |-> 60000, gustStrength |-> 100000, turbulence |-> 400,
            noiseScale |-> 6, timeScale |-> 400,
            baseDirection |-> <<1000, 0, 200>>, verticalInfluence |-> 300,
            curlStrength |-> 500] }

WindTimeSteps == { <<1, 2>>, <<1, 1>> }
EventPosition(d) == Vec(d, 0, 0, 0)
EventStrength == 10000
EventRadius == 5000
EventDurations == { 1000, 2000 }
GustDirections == { <<0, 3000, 4000>>, <<2000, 0, 0>> }
VortexAxes == { <<0, 2000, 0>>, <<0, 0, 1000>> }
QueryPoints(d) ==
    { Vec(d, 0, 0, 0), Vec(d, 3000, 0, 0), Vec(d, 1000, 10000, 0),
      Vec(d, 8000, 0, 0) }

InitWind ==
    /\ dim \in {2, 3}
    /\ windConfig \in WindConfigs(dim)
    /\ time = 0
    /\ gusts = <<>>
    /\ vortices = <<>>
    /\ nextId = 1
    /\ removed = {}
    /\ windBefore = [wind |-> Wind, dt |-> <<0, 1>>]
    /\ particles = <<>>
    /\ before = <<>>
    /\ IdleCape
    /\ IdleAux
    /\ lastOp = "construct"
    /\ steps = 0

Ids(events) == { events[i].id : i \in 1..Len(events) }

WindStep(op, w, dt) ==
    /\ windConfig' = w.config
    /\ time' = w.time
    /\ gusts' = w.gusts
    /\ vortices' = w.vortices
    /\ removed' = removed \cup ((Ids(gusts) \cup Ids(vortices))
                                  \ (Ids(w.gusts) \cup Ids(w.vortices)))
    /\ windBefore' = [wind |-> Wind, dt |-> dt]
    /\ lastOp' = op
    /\ steps' = IF steps < MaxWindSteps THEN steps + 1 ELSE steps
    /\ UNCHANGED <<dim, particles, before, constraints, bendConstraints, config,
                   attachVelocity, currentForward, attachLine, auxVars>>

\* wind.update(dt), once per frame; after the last outside call the field
\* is still updated until its events have run out
WindUpdate ==
    /\ steps < MaxWindSteps \/ gusts # <<>> \/ vortices # <<>>
    /\ time < MaxTime
    /\ \E dt \in WindTimeSteps :
          \/ dim = 2 /\ WindStep("update", WindField_update(Wind, dt), dt)
          \/ dim = 3 /\ WindStep("update", WindField3D_update(Wind, dt), dt)

WindAddGust ==
    /\ steps < MaxWindSteps
    /\ nextId <= MaxEvents
    /\ nextId' = nextId + 1
    /\ \E duration \in EventDurations :
          \/ /\ dim = 2
             /\ WindStep("addGust",
                    WindField_addGust(Wind, nextId, EventPosition(2),
                        EventStrength, EventRadius, duration), <<0, 1>>)
          \/ /\ dim = 3
             /\ \E direction \in GustDirections :
                    WindStep("addGust",
                        WindField3D_addGust(Wind, nextId, EventPosition(3),
                            direction, EventStrength, EventRadius, duration),
                        <<0, 1>>)

WindAddVortex ==
    /\ dim = 3
    /\ steps < MaxWindSteps
    /\ nextId <= MaxEvents
    /\ nextId' = nextId + 1
    /\ \E duration \in EventDurations, axis \in VortexAxes :
          WindStep("addVortex",
              WindField3D_addVortex(Wind, nextId, EventPosition(3), axis,
                  EventStrength, EventRadius, duration), <<0, 1>>)

NextWind ==
    \/ WindUpdate /\ UNCHANGED nextId
    \/ WindAddGust
    \/ WindAddVortex

SpecWind == InitWind /\ [][NextWind]_vars

\* the game loop calls wind.update(dt) in every frame
SpecWindFair == SpecWind /\ WF_vars(WindUpdate /\ UNCHANGED nextId)

Events == { gusts[i] : i \in 1..Len(gusts) } \cup { vortices[i] : i \in 1..Len(vortices) }

Present(id) == id \in Ids(gusts) \cup Ids(vortices)

\* the events held before the last call
EventsBefore ==
    { windBefore.wind.gusts[i] : i \in 1..Len(windBefore.wind.gusts) }
        \cup { windBefore.wind.vortices[i] : i \in 1..Len(windBefore.wind.vortices) }

\* C5: when update(dt) has returned, the field holds no event whose elapsed
\* time has reached its duration.
C5_NoExpiredAfterUpdate ==
    lastOp = "update" => \A e \in Events : e.elapsed < e.duration

\* what update does to each event on its own: an event that had not expired is
\* kept and aged by dt, an expired one is gone, and nothing else appears
C6_Independent ==
    /\ lastOp = "update" =>
          /\ \A e \in EventsBefore :
                IF e.elapsed < e.duration
                THEN [e EXCEPT !.elapsed = @ + DtTimes(windBefore.dt, Scale)] \in Events
                ELSE ~Present(e.id)
          /\ \A e \in Events : e.id \in { b.id : b \in EventsBefore }
    /\ \A id \in removed : ~Present(id)

\* C6: under update(dt) in every frame each event that was added is eventually
\* absent; an update keeps and ages every unexpired event whatever the other
\* events are, and an erased event never comes back.
C6_EventsExpire ==
    /\ \A id \in 1..MaxEvents : Present(id) ~> ~Present(id)
    /\ []C6_Independent

\* one event has been erased by an update that kept and aged another one
C6_Witness ==
    /\ lastOp = "update"
    /\ removed # {}
    /\ \E e \in Events : e.elapsed > 0 /\ e.elapsed < e.duration
    /\ Cardinality({ b.id : b \in EventsBefore }) = 2

\* C7: addGust / addVortex append exactly one event with elapsed = 0 to their
\* own list and leave the clock, the configuration, the other list and every
\* earlier event as they were.
C7_AddAppendsOne ==
    lastOp \in {"addGust", "addVortex"} =>
        LET b == windBefore.wind
        IN  /\ windConfig = b.config
            /\ time = b.time
            /\ lastOp = "addGust" =>
                  /\ vortices = b.vortices
                  /\ Len(gusts) = Len(b.gusts) + 1
                  /\ SubSeq(gusts, 1, Len(b.gusts)) = b.gusts
                  /\ gusts[Len(gusts)].elapsed = 0
            /\ lastOp = "addVortex" =>
                  /\ gusts = b.gusts
                  /\ Len(vortices) = Len(b.vortices) + 1
                  /\ SubSeq(vortices, 1, Len(b.vortices)) = b.vortices
                  /\ vortices[Len(vortices)].elapsed = 0

\* a gust has been added to a field that already held an aged gust
C7_Witness ==
    /\ lastOp = "addGust"
    /\ Len(gusts) = 2
    /\ gusts[1].elapsed > 0
    /\ time > 0

\* base strength, turbulence, gust strength and curl strength are all zero
ZeroAmbient ==
    /\ windConfig.baseStrength = 0
    /\ windConfig.gustStrength = 0
    /\ windConfig.turbulence = 0
    /\ dim = 3 => windConfig.curlStrength = 0

\* C8: with all four strengths zero and no event ever added, getWindAt is the
\* zero vector at every query point after any number of updates.
C8_ZeroField ==
    (ZeroAmbient /\ nextId = 1) =>
        \A q \in QueryPoints(dim) : getWindAt(Wind, q) = Zero(dim)

\* the zero-strength field has been updated and its noise is not zero at
\* some query point
C8_Witness ==
    /\ ZeroAmbient
    /\ nextId = 1
    /\ lastOp = "update"
    /\ time > 0
    /\ \E q \in QueryPoints(dim) :
          IF dim = 2
          THEN WindField_sampleNoise(windConfig, q[1], q[2], time) # <<0, 0>>
          ELSE WindField3D_sampleNoise(windConfig, q[1], q[2], q[3], time) # <<0, 0, 0>>

\* a single gust has been added to a zero-strength field and is still held
SingleGust ==
    /\ ZeroAmbient
    /\ nextId = 2
    /\ Len(gusts) = 1
    /\ vortices = <<>>

\* getStrengthAt at the centre of gust g if its elapsed time were e
StrengthAtCentre(g, e) ==
    getStrengthAt([Wind EXCEPT !.gusts = << [g EXCEPT !.elapsed = e] >>], g.position)

\* the envelope seen at the centre of the only gust
EnvelopeAtCentre ==
    LET g == gusts[1]
        s == getStrengthAt(Wind, g.position)
    IN  /\ g.elapsed = 0 => s = 0
        /\ (0 < g.elapsed /\ g.elapsed < g.duration) => s > 0
        /\ g.elapsed <= g.duration => s <= StrengthAtCentre(g, g.duration \div 2)
        /\ g.elapsed = g.duration => s <= 1       \* about 0: at most 0.001

\* C9 as stated: the envelope is seen at the gust's position in WindField as
\* well as in WindField3D.
C9_EnvelopeEverywhere == SingleGust => EnvelopeAtCentre

\* C9 amended: in WindField3D a gust with a nonzero direction shows the
\* envelope at its own position (0 at elapsed 0, positive inside the lifetime,
\* greatest at D/2, about 0 at D); in the 2D WindField the gust pushes away
\* from its position, so the strength at the position itself is always 0.
C9_Envelope3DOnly ==
    SingleGust =>
        /\ (dim = 3 /\ gusts[1].direction # <<0, 0, 0>>) => EnvelopeAtCentre
        /\ dim = 2 => getStrengthAt(Wind, gusts[1].position) = 0

\* the only gust of a 3D field is at mid-life and felt at its position
C9_Witness ==
    /\ SingleGust
    /\ dim = 3
    /\ gusts[1].direction # <<0, 0, 0>>
    /\ gusts[1].elapsed * 2 = gusts[1].duration
    /\ getStrengthAt(Wind, gusts[1].position) > 0

\* the query point is farther from the event's position than its radius
Outside(e, q) == rawLengthSquared(VSub(q, e.position)) > e.radius * e.radius

\* the query point is farther from the vortex's axis than its radius
OutsideAxis(v, q) ==
    LET toPoint == VSub(q, v.position)
        projected == VSub(toPoint, VMul(v.axis, dot(toPoint, v.axis)))
    IN  rawLengthSquared(projected) > v.radius * v.radius

GustTerm(g, q) ==
    IF dim = 2 THEN WindField_gustTerm(g, q[1], q[2])
    ELSE WindField3D_gustTerm(g, q[1], q[2], q[3])

-----------------------------------------------------------------------------
(* SpecCape: a cape (2D or 3D) built at an attach point and then driven by  *)
(* update, solveConstraints, setAttachPoint and setAttachVelocity in any    *)
(* order, in a wind field that holds one gust                               *)

\* calls made on one cape
MaxCapeSteps == 3

\* segments and width of the grids
CapeGrids == { <<3, 3>>, <<2, 3>> }

\* CapeConfig{} and CapeConfig3D{} with the grid replaced
CapeConfigs(d) ==
    IF d = 2
    THEN { [segments |-> g[1], width |-> g[2], segmentLength |-> 8000,
            stiffness |-> 950, bendStiffness |-> 300, gravity |-> 400000,
            windInfluence |-> 1200, damping |-> 980] : g \in CapeGrids }
    ELSE { [segments |-> g[1], width |-> g[2], segmentLength |-> 6000,
            widthSpacing |-> 4000, stiffness |-> 920, bendStiffness |-> 250,
            gravity |-> 25000, windInfluence |-> 1400, damping |-> 985,
            aerodynamicDrag |-> 20, liftCoefficient |-> 300] : g \in CapeGrids }

CapeOrigin(d) == Vec(d, 1000, 2000, 0)
CapeForward == <<0, 0, -1000>>
AttachPoints(d) == { Vec(d, 5000, -2000, 1000) }
AttachForwards == { <<1000, 0, 1000>>, <<0, 2000, 0>> }
AttachVelocities(d) == { Vec(d, 30000, -10000, 5000) }
CapeTimeSteps == { <<1, 10>> }
CapeIterations == { -1, 0, 1, 2, 3 }

\* the default wind of the dimension
CapeWindConfig(d) == CHOOSE c \in WindConfigs(d) : c.baseStrength # 0

\* the gust blowing over the cape
CapeGust(d) ==
    IF d = 2
    THEN [id |-> 1, position |-> <<0, 0>>, strength |-> EventStrength,
          radius |-> 20000, duration |-> 2000, elapsed |-> 500]
    ELSE [id |-> 1, position |-> <<0, 0, 0>>, direction |-> <<0, 3000, 4000>>,
          strength |-> EventStrength, radius |-> 20000, duration |-> 2000,
          elapsed |-> 500]

\* row 0 of a particle array
Row0(ps, cfg) == [ col \in 1..cfg.width |-> ps[col].position ]

InitCape ==
    /\ dim \in {2, 3}
    /\ config \in CapeConfigs(dim)
    /\ particles = IF dim = 2
                   THEN Cape_createParticles(config, CapeOrigin(2))
                   ELSE Cape3D_createParticles(config, CapeOrigin(3), CapeForward)
    /\ constraints = IF dim = 2
                     THEN Cape_createConstraints(particles, config)
                     ELSE Cape3D_createConstraints(config)
    /\ bendConstraints = IF dim = 2
                         THEN Cape_createBendingConstraints(particles, config)
                         ELSE Cape3D_createBendingConstraints(particles, config)
    /\ attachVelocity = Zero(dim)
    /\ currentForward = IF dim = 2 THEN Zero(2) ELSE normalized(CapeForward)
    /\ attachLine = Row0(particles, config)
    /\ before = particles
    /\ windConfig = CapeWindConfig(dim)
    /\ time = 1500
    /\ gusts = << CapeGust(dim) >>
    /\ vortices = <<>>
    /\ nextId = 2
    /\ removed = {}
    /\ windBefore = <<>>
    /\ initial = [particles |-> particles, constraints |-> constraints,
                  bendConstraints |-> bendConstraints]
    /\ lastArg = <<>>
    /\ twin = <<>>
    /\ forceSum = <<>>
    /\ lastOp = "construct"
    /\ steps = 0

CapeStep(op, arg, ps) ==
    /\ steps < MaxCapeSteps
    /\ particles' = ps
    /\ before' = particles
    /\ lastOp' = op
    /\ lastArg' = arg
    /\ steps' = steps + 1
    /\ UNCHANGED <<dim, constraints, bendConstraints, config, windVars,
                   initial, twin, forceSum>>

CapeUpdate ==
    /\ \E dt \in CapeTimeSteps :
          CapeStep("update", dt,
              IF dim = 2
              THEN Cape_update(particles, config, dt, Wind)
              ELSE Cape3D_update(particles, config, dt, Wind, attachVelocity,
                                 currentForward))
    /\ UNCHANGED <<attachVelocity, currentForward, attachLine>>

CapeSolveConstraints ==
    /\ \E iterations \in CapeIterations :
          CapeStep("solveConstraints", iterations,
              IF dim = 2
              THEN Cape_solveConstraints(particles, constraints,
                                         bendConstraints, iterations)
              ELSE Cape3D_solveConstraints(particles, constraints,
                                           bendConstraints, iterations))
    /\ UNCHANGED <<attachVelocity, currentForward, attachLine>>

CapeSetAttachPoint ==
    \E point \in AttachPoints(dim) :
       \/ /\ dim = 2
          /\ CapeStep("setAttachPoint", point,
                 Cape_setAttachPoint(particles, config, point))
          /\ attachLine' = [ col \in 1..config.width |->
                               << Cape_attachX(config, point, col - 1),
                                  point[2] >> ]
          /\ UNCHANGED <<attachVelocity, currentForward>>
       \/ /\ dim = 3
          /\ \E forward \in AttachForwards :
                /\ CapeStep("setAttachPoint", <<point, forward>>,
                       Cape3D_setAttachPoint(particles, config, point, forward))
                /\ currentForward' = normalized(forward)
                /\ attachLine' = [ col \in 1..config.width |->
                                     Cape3D_attachPos(config, point, forward,
                                                      col - 1) ]
          /\ UNCHANGED attachVelocity

CapeSetAttachVelocity ==
    /\ \E velocity \in AttachVelocities(dim) :
          /\ CapeStep("setAttachVelocity", velocity,
                 IF dim = 2
                 THEN Cape_setAttachVelocity(particles, config, velocity)
                 ELSE Cape3D_setAttachVelocity(particles, config, velocity))
          /\ attachVelocity' = velocity
    /\ UNCHANGED <<currentForward, attachLine>>

NextCape ==
    \/ CapeUpdate
    \/ CapeSolveConstraints
    \/ CapeSetAttachPoint
    \/ CapeSetAttachVelocity

SpecCape == InitCape /\ [][NextCape]_vars

\* C2: in Cape and Cape3D, after construction and after any sequence of
\* update, solveConstraints, setAttachPoint and setAttachVelocity calls,
\* every row-0 particle is pinned and stands exactly where construction or
\* the most recent setAttachPoint put it
C2_PinnedRowFixed ==
    config # NoCapeConfig =>
        \A col \in 1..config.width :
            /\ particles[col].pinned
            /\ particles[col].position = attachLine[col]

\* the attachment line was moved, a velocity was imparted to it, and a
\* solveConstraints that moved the cloth came last
C2_Witness ==
    /\ config # NoCapeConfig
    /\ lastOp = "solveConstraints"
    /\ particles # before
    /\ attachVelocity # Zero(dim)
    /\ particles[1].previousPosition # particles[1].position
    /\ attachLine # Row0(IF dim = 2
                         THEN Cape_createParticles(config, CapeOrigin(2))
                         ELSE Cape3D_createParticles(config, CapeOrigin(3),
                                                     CapeForward), config)

\* the calls of one pass: every structural constraint in construction order,
\* then, in an even-indexed pass, every bending constraint in construction order
PassCalls(pass) ==
    [ k \in 1..Len(constraints) |-> <<"structural", k>> ]
        \o (IF pass % 2 = 0
            THEN [ k \in 1..Len(bendConstraints) |-> <<"bending", k>> ]
            ELSE <<>>)

\* the calls of the passes pass, pass + 1, ..., iterations - 1
RECURSIVE CallsFrom(_, _)
CallsFrom(pass, iterations) ==
    IF pass >= iterations THEN <<>>
    ELSE PassCalls(pass) \o CallsFrom(pass + 1, iterations)

\* the particles ps after the calls k, k + 1, ... of the sequence calls
RECURSIVE AfterCalls(_, _, _)
AfterCalls(ps, calls, k) ==
    IF ps = <<>> \/ k > Len(calls) THEN ps
    ELSE AfterCalls(IF calls[k][1] = "structural"
                    THEN solve(ps, constraints[calls[k][2]])
                    ELSE solveBend(ps, bendConstraints[calls[k][2]]),
                    calls, k + 1)

\* how many calls of the sequence are solves of bending constraints
BendingCalls(calls) ==
    Cardinality({ k \in 1..Len(calls) : calls[k][1] = "bending" })

\* C14: solveConstraints(iterations) of Cape and Cape3D leaves the particles
\* that iterations passes leave, each pass solving every structural constraint
\* once in construction order and each even-indexed pass then solving every
\* bending constraint once, so that each bending constraint is solved
\* ceil(iterations / 2) times; with iterations <= 0 no particle changes.
C14_PassSchedule ==
    lastOp = "solveConstraints" =>
        /\ particles = AfterCalls(before, CallsFrom(0, lastArg), 1)
        /\ lastArg > 0 =>
              BendingCalls(CallsFrom(0, lastArg))
                  = ((lastArg + 1) \div 2) * Len(bendConstraints)
        /\ lastArg <= 0 => particles = before

\* three passes have been made over a cape whose structural and bending
\* constraints both move particles
C14_Witness ==
    /\ lastOp = "solveConstraints"
    /\ lastArg = 3
    /\ particles # before
    /\ particles # AfterCalls(before, CallsFrom(0, 2), 1)
    /\ particles # AfterCalls(before, CallsFrom(1, 4), 1)

\* particle p with the position, previous position and accumulator of q
Placed(p, q) ==
    [p EXCEPT !.position = q.position,
              !.previousPosition = q.previousPosition,
              !.acceleration = q.acceleration]

\* C15: whatever update, solveConstraints, setAttachPoint and setAttachVelocity
\* calls are made on a Cape or Cape3D, it keeps its segments x width
\* particles and its structural and bending constraints exactly as
\* constructed (endpoints, rest lengths, rest angles, stiffness), and every
\* particle keeps every field but position, previousPosition and the
\* accumulator (so its mass and its pinned flag).
C15_TopologyFixed ==
    config # NoCapeConfig =>
        /\ Len(particles) = config.segments * config.width
        /\ Len(initial.particles) = Len(particles)
        /\ constraints = initial.constraints
        /\ bendConstraints = initial.bendConstraints
        /\ \A i \in 1..Len(particles) :
              Placed(particles[i], initial.particles[i]) = initial.particles[i]

\* the attachment has been moved and given a velocity and the cape has been
\* updated, which has moved its last particle
C15_Witness ==
    /\ config # NoCapeConfig
    /\ lastOp = "update"
    /\ attachVelocity # Zero(dim)
    /\ attachLine # Row0(initial.particles, config)
    /\ particles[Len(particles)].position
          # initial.particles[Len(particles)].position
    /\ constraints # <<>>

\* the share of the attach velocity handed to the pinned row
AttachFraction(d) == IF d = 2 THEN 100 ELSE 50

\* C22: setAttachVelocity(v) moves no particle: it stores v as the attach
\* velocity and makes the inferred velocity of every row-0 particle 0.1 v
\* (Cape) or 0.05 v (Cape3D) by putting previousPosition at position minus
\* that share, and leaves every particle of the rows below as it was; a
\* setAttachPoint that follows makes the row-0 inferred velocity zero again.
C22_AttachVelocityImparted ==
    config # NoCapeConfig =>
        /\ lastOp = "setAttachVelocity" =>
              /\ attachVelocity = lastArg
              /\ \A i \in 1..Len(particles) :
                    /\ particles[i].position = before[i].position
                    /\ i > config.width => particles[i] = before[i]
                    /\ i <= config.width =>
                          /\ getVelocity(particles[i])
                                = VMul(lastArg, AttachFraction(dim))
                          /\ particles[i].previousPosition
                                = VSub(particles[i].position,
                                       VMul(lastArg, AttachFraction(dim)))
        /\ lastOp = "setAttachPoint" =>
              \A i \in 1..config.width :
                  getVelocity(particles[i]) = Zero(dim)

\* a velocity was imparted to the pinned row of a cape that had moved, and
\* the setAttachPoint after it has taken the row's velocity away
C22_Witness ==
    /\ config # NoCapeConfig
    /\ lastOp = "setAttachPoint"
    /\ attachVelocity # Zero(dim)
    /\ getVelocity(before[1]) = VMul(attachVelocity, AttachFraction(dim))
    /\ getVelocity(particles[1]) = Zero(dim)
    /\ particles[Len(particles)].position # initial.particles[Len(particles)].position

\* distance between adjacent particles of the pinned row
ColumnSpacing(cfg) ==
    IF dim = 2 THEN Mul(cfg.segmentLength, 600) ELSE cfg.widthSpacing

\* the point handed to the last setAttachPoint
AttachedAt == IF dim = 2 THEN lastArg ELSE lastArg[1]

\* the cape as constructed at the arguments of the last setAttachPoint
BuiltThere ==
    IF dim = 2 THEN Cape_createParticles(config, lastArg)
    ELSE Cape3D_createParticles(config, lastArg[1], lastArg[2])

\* the constraints between the row-0 particles col and col + 1
Row0Constraints(col) ==
    { k \in 1..Len(constraints) :
        /\ constraints[k].particleA = col
        /\ constraints[k].particleB = col + 1 }

\* C23: setAttachPoint(point[, forward]), forward being a direction, moves
\* only the particles of row 0: it puts them where constructing the cape at
\* that point puts them, on a straight line centred on point with adjacent
\* particles one column spacing apart (0.6 segmentLength in Cape,
\* widthSpacing in Cape3D, the rest length of the constraint between them),
\* and leaves every particle of the rows below as it was.
C23_AttachPointMovesRow0 ==
    (config # NoCapeConfig /\ lastOp = "setAttachPoint") =>
        /\ \A i \in (config.width + 1)..Len(particles) :
              particles[i] = before[i]
        /\ \A i \in 1..config.width :
              particles[i].position = BuiltThere[i].position
        /\ \A j \in 1..dim :
              Abs(particles[1].position[j] + particles[config.width].position[j]
                    - 2 * AttachedAt[j]) <= 2
        /\ \A i \in 1..(config.width - 1) :
              /\ Abs(length(VSub(particles[i + 1].position,
                                 particles[i].position))
                       - ColumnSpacing(config)) <= 2
              /\ Row0Constraints(i) # {}
              /\ \A k \in Row0Constraints(i) :
                    constraints[k].restLength = ColumnSpacing(config)
              /\ \A j \in 1..dim :
                    Abs((particles[i + 1].position[j] - particles[i].position[j])
                          - (particles[2].position[j] - particles[1].position[j]))
                       <= 1

\* the pinned row of a cape whose lower rows had moved was put elsewhere
C23_Witness ==
    /\ config # NoCapeConfig
    /\ lastOp = "setAttachPoint"
    /\ config.width = 3
    /\ particles[1].position # before[1].position
    /\ before[Len(before)].position # initial.particles[Len(before)].position

\* the particles the last update would have produced had the cape's
\* attachVelocity been velocity, everything else being the same
UpdatedWith(velocity) ==
    IF dim = 2 THEN Cape_update(before, config, lastArg, Wind)
    ELSE Cape3D_update(before, config, lastArg, Wind, velocity, currentForward)

\* the unpinned particles
Unpinned == { i \in 1..Len(particles) : ~particles[i].pinned }

\* C24: update(dt, wind) of a cape whose attachVelocity is not zero leaves
\* every unpinned particle elsewhere than the update of the same cape with a
\* zero attachVelocity does, in Cape and in Cape3D.
C24_BillowFollowsAttachment ==
    (/\ config # NoCapeConfig
     /\ lastOp = "update"
     /\ attachVelocity # Zero(dim)) =>
        \A i \in Unpinned :
            particles[i].position # UpdatedWith(Zero(dim))[i].position

\* what update does: Cape3D pushes every unpinned particle by a share of
\* attachVelocity, Cape does not read attachVelocity
BillowIn3DOnly ==
    (/\ config # NoCapeConfig
     /\ lastOp = "update"
     /\ attachVelocity # Zero(dim)) =>
        /\ particles = UpdatedWith(attachVelocity)
        /\ dim = 3 => \A i \in Unpinned :
               particles[i].position # UpdatedWith(Zero(3))[i].position
        /\ dim = 2 => particles = UpdatedWith(Zero(2))

\* a 2D cape with a nonzero attach velocity has been updated and has moved
BillowMissing ==
    /\ config # NoCapeConfig
    /\ dim = 2
    /\ lastOp = "update"
    /\ attachVelocity # Zero(2)
    /\ particles # before

\* the particles of the last Cape3D::update after its first loop
Forced ==
    Cape3D_forceAll(before, config, lastArg, Wind, attachVelocity,
                    currentForward)

\* particle i after the last update, had applyAerodynamics reached it
WithAerodynamics(i) ==
    VerletParticle3D_update(
        Cape3D_aerodynamicsAt(Forced, Forced[i], config,
                              RowOf(config, i - 1), ColOf(config, i - 1), Wind),
        lastArg)

\* particle i after the last update, had applyAerodynamics passed it by
WithoutAerodynamics(i) == VerletParticle3D_update(Forced[i], lastArg)

\* the last call was an update of a 3D cape with an inner particle
Updated3D ==
    /\ config # NoCapeConfig
    /\ dim = 3
    /\ lastOp = "update"
    /\ config.segments >= 3 /\ config.width >= 3

\* the particles applyAerodynamics loops over
Inner ==
    { i \in 1..Len(particles) :
        /\ RowOf(config, i - 1) >= 1 /\ RowOf(config, i - 1) < config.segments - 1
        /\ ColOf(config, i - 1) >= 1 /\ ColOf(config, i - 1) < config.width - 1 }

\* C25: in Cape3D::update every unpinned particle, those of the last row and
\* of the first and last columns included, is integrated with the drag along
\* the surface normal at its place, and with the lift when the normal
\* component of the relative velocity is positive.
C25_AerodynamicsEverywhere ==
    Updated3D => \A i \in Unpinned : particles[i] = WithAerodynamics(i)

\* what update does: the aerodynamic forces reach the unpinned particles of
\* rows 1 .. segments - 2 and columns 1 .. width - 2, and no other particle
AerodynamicsInside ==
    Updated3D =>
        /\ \A i \in Unpinned \cap Inner : particles[i] = WithAerodynamics(i)
        /\ \A i \in Unpinned \ Inner : particles[i] = WithoutAerodynamics(i)

\* a particle of the free edge was integrated without the aerodynamic force
\* of its place
EdgeSkipped ==
    /\ Updated3D
    /\ \E i \in Unpinned \ Inner :
          /\ RowOf(config, i - 1) = config.segments - 1
          /\ particles[i] # WithAerodynamics(i)

\* the constraints that lead from a particle to the one rows further down and
\* cols further right
Leading(rows, cols) ==
    { k \in 1..Len(constraints) :
        /\ RowOf(config, constraints[k].particleB - 1)
             - RowOf(config, constraints[k].particleA - 1) = rows
        /\ ColOf(config, constraints[k].particleB - 1)
             - ColOf(config, constraints[k].particleA - 1) = cols }

\* the bending constraints over three consecutive particles, each rows
\* further down and cols further right than the one before
Bending(rows, cols) ==
    { k \in 1..Len(bendConstraints) :
        \E row \in 0..(config.segments - 1), col \in 0..(config.width - 1) :
           /\ row + 2 * rows < config.segments
           /\ col + 2 * cols < config.width
           /\ bendConstraints[k].particleA = getIndex(config, row, col)
           /\ bendConstraints[k].particleB
                 = getIndex(config, row + rows, col + cols)
           /\ bendConstraints[k].particleC
                 = getIndex(config, row + 2 * rows, col + 2 * cols) }

\* the particle pairs and triples joined
Pairs ==
    { {constraints[k].particleA, constraints[k].particleB} :
        k \in 1..Len(constraints) }
Triples ==
    { <<bendConstraints[k].particleA, bendConstraints[k].particleB,
        bendConstraints[k].particleC>> : k \in 1..Len(bendConstraints) }

\* a solveConstraints made on the cape as constructed
SolvedAtRest ==
    /\ config # NoCapeConfig
    /\ lastOp = "solveConstraints"
    /\ before = initial.particles

\* C27: a cape of segments rows and width columns is constructed with
\* (segments - 1) * width vertical, segments * (width - 1) horizontal and
\* 2 * (segments - 1) * (width - 1) diagonal distance constraints, no pair of
\* particles joined twice, and (segments - 2) * width column and
\* segments * (width - 2) row bending constraints; every endpoint is a
\* particle of the grid, every rest length is the distance and every rest
\* angle the angle of the particles as constructed (to the resolution of
\* the arithmetic), and a solveConstraints made right after construction
\* moves no particle.
C27_ConstructedAtRest ==
    config # NoCapeConfig =>
        /\ Len(initial.particles) = config.segments * config.width
        /\ constraints = initial.constraints
        /\ bendConstraints = initial.bendConstraints
        /\ Cardinality(Leading(1, 0)) = (config.segments - 1) * config.width
        /\ Cardinality(Leading(0, 1)) = config.segments * (config.width - 1)
        /\ Cardinality(Leading(1, 1) \cup Leading(1, -1))
              = 2 * (config.segments - 1) * (config.width - 1)
        /\ Leading(1, 0) \cup Leading(0, 1) \cup Leading(1, 1)
              \cup Leading(1, -1) = 1..Len(constraints)
        /\ Cardinality(Pairs) = Len(constraints)
        /\ Cardinality(Bending(1, 0)) = (config.segments - 2) * config.width
        /\ Cardinality(Bending(0, 1)) = config.segments * (config.width - 2)
        /\ Bending(1, 0) \cup Bending(0, 1) = 1..Len(bendConstraints)
        /\ Cardinality(Triples) = Len(bendConstraints)
        /\ \A k \in 1..Len(constraints) :
              /\ constraints[k].particleA \in 1..Len(initial.particles)
              /\ constraints[k].particleB \in 1..Len(initial.particles)
              /\ constraints[k].particleA # constraints[k].particleB
              /\ Abs(constraints[k].restLength
                       - length(VSub(
                           initial.particles[constraints[k].particleB].position,
                           initial.particles[constraints[k].particleA].position)))
                    <= 1
        /\ \A k \in 1..Len(bendConstraints) :
              bendConstraints[k].restAngle
                 = NewBend(initial.particles, bendConstraints[k].particleA,
                           bendConstraints[k].particleB,
                           bendConstraints[k].particleC, 0).restAngle
        /\ SolvedAtRest =>
              \A i \in 1..Len(particles) :
                 \A j \in 1..dim :
                    Abs(particles[i].position[j] - before[i].position[j]) <= 1

\* a cape with bending constraints was solved, three iterations, right after
\* its construction
C27_Witness ==
    /\ SolvedAtRest
    /\ lastArg = 3
    /\ Len(bendConstraints) > 0
    /\ Len(constraints) > 0

\* the share of the sampled wind a particle of a row takes, in thousandths:
\* 0.5 + 0.5 row / segments in Cape, 0.3 + 0.7 row / segments in Cape3D
RowShare(row) ==
    IF dim = 2 THEN (500 * config.segments + 500 * row) \div config.segments
    ELSE (300 * config.segments + 700 * row) \div config.segments

\* the wind, scaled by windInfluence, where particle i was before the update
SampledWind(i) ==
    VMul(getWindAt(Wind, before[i].position), config.windInfluence)

\* particle i of a Cape after the last update, had its wind force been the
\* sampled wind times share
Blown2D(i, share) ==
    VerletParticle_update(
        Cape_applyDrag(
            VerletParticle_applyForce(Cape_applyGravity(before[i], config),
                                      VMul(SampledWind(i), share))),
        lastArg)

\* the same of a Cape3D, before the aerodynamic forces and the integration
Forced3D(i, share) ==
    Cape3D_applyDrag(
        Cape3D_applySway(
            Cape3D_applyMove(
                VerletParticle3D_applyForce(
                    Cape3D_applyGravity(before[i], config),
                    VMul(SampledWind(i), share)),
                config, RowOf(config, i - 1), attachVelocity),
            RowOf(config, i - 1), lastArg, attachVelocity, currentForward))

Blown3D(i, share) ==
    VerletParticle3D_update(
        IF i \in Inner
        THEN Cape3D_aerodynamicsAt(Forced, Forced3D(i, share), config,
                 RowOf(config, i - 1), ColOf(config, i - 1), Wind)
        ELSE Forced3D(i, share),
        lastArg)

Blown(i, share) == IF dim = 2 THEN Blown2D(i, share) ELSE Blown3D(i, share)

\* particle i after an update that applies no force to it
Becalmed(i) ==
    IF dim = 2 THEN VerletParticle_update(before[i], lastArg)
    ELSE VerletParticle3D_update(before[i], lastArg)

\* C28: update(dt, wind) integrates every unpinned particle with the wind
\* sampled at its position times windInfluence times a share that depends
\* on its row only, 0.5 + 0.5 row / segments in Cape and
\* 0.3 + 0.7 row / segments in Cape3D; the share grows strictly from row 1
\* to the last row and lies in (0, 1]; a pinned particle is integrated with
\* no wind, gravity or drag force and stays where it was.
C28_WindShareByRow ==
    (config # NoCapeConfig /\ lastOp = "update") =>
        /\ \A i \in Unpinned : particles[i] = Blown(i, RowShare(RowOf(config, i - 1)))
        /\ \A row \in 1..(config.segments - 1) :
              /\ RowShare(row) > 0 /\ RowShare(row) <= Scale
              /\ RowShare(row) > RowShare(row - 1)
        /\ \A i \in 1..Len(particles) \ Unpinned :
              /\ particles[i] = Becalmed(i)
              /\ particles[i].position = before[i].position
              /\ particles[i].acceleration = before[i].acceleration

\* an update in a wind that blows on a particle of the last row: the share
\* of the row above would have left the particle elsewhere
C28_Witness ==
    /\ config # NoCapeConfig
    /\ lastOp = "update"
    /\ config.segments >= 3
    /\ \E i \in Unpinned :
          /\ RowOf(config, i - 1) = config.segments - 1
          /\ SampledWind(i) # Zero(dim)
          /\ particles[i].position
                # Blown(i, RowShare(config.segments - 2)).position
    /\ \E i \in 1..Len(particles) : particles[i].pinned

-----------------------------------------------------------------------------
(* SpecLoop: the frame loop of main.cpp, which owns one wind field and one  *)
(* cape. The calls between wind.update and the attachment calls             *)
(* (flight.update, character.update) touch neither; the attach point and    *)
(* the velocity they produce are inputs.                                    *)

\* frames of the loop
MaxFrames == 2

\* capeConfig of main.cpp on a small grid
LoopCapeConfig ==
    [segments |-> 3, width |-> 3, segmentLength |-> 7000, stiffness |-> 920,
     bendStiffness |-> 250, gravity |-> 350000, windInfluence |-> 1400,
     damping |-> 985]

\* windConfig of main.cpp
LoopWindConfig ==
    [baseStrength |-> 60000, gustStrength |-> 100000, turbulence |-> 400,
     noiseScale |-> 6, timeScale |-> 400, baseDirection |-> <<1000, 100>>]

\* GetFrameTime() at 60 frames a second, and the cap std::min(dt, 0.033f)
LoopTimeSteps == { <<1, 60>>, <<33, 1000>> }
LoopStart == <<4000, 3000>>
LoopAttachPoints == { <<4000, 3000>>, <<6000, 2000>> }
LoopVelocities == { <<0, 0>>, <<30000, -10000>> }

\* a slip: the cape is updated before the attachment is repositioned
Mut_LoopCalls ==
    << "wind.update", "update", "setAttachPoint", "setAttachVelocity",
       "solveConstraints" >>

\* the calls of one pass through the loop body on the wind and the cape, in
\* program order
LoopCalls ==
    << "wind.update", "setAttachPoint", "setAttachVelocity", "update",
       "solveConstraints" >>

\* the call the loop stands before
NextCall == LoopCalls[(steps % Len(LoopCalls)) + 1]

InitLoop ==
    /\ dim = 2
    /\ config = LoopCapeConfig
    /\ particles = Cape_createParticles(config, LoopStart)
    /\ constraints = Cape_createConstraints(particles, config)
    /\ bendConstraints = Cape_createBendingConstraints(particles, config)
    /\ attachVelocity = Zero(2)
    /\ currentForward = Zero(2)
    /\ attachLine = Row0(particles, config)
    /\ before = particles
    /\ windConfig = LoopWindConfig
    /\ time = 0
    /\ gusts = <<>>
    /\ vortices = <<>>
    /\ nextId = 1
    /\ removed = {}
    /\ windBefore = [wind |-> Wind, dt |-> <<0, 1>>]
    /\ initial = [particles |-> particles, constraints |-> constraints,
                  bendConstraints |-> bendConstraints]
    /\ lastArg = <<>>
    /\ twin = <<>>
    /\ forceSum = <<>>
    /\ lastOp = "construct"
    /\ steps = 0

LoopStep(op, arg) ==
    /\ steps < MaxFrames * Len(LoopCalls)
    /\ NextCall = op
    /\ lastOp' = op
    /\ lastArg' = arg
    /\ steps' = steps + 1
    /\ UNCHANGED <<dim, constraints, bendConstraints, config, windConfig,
                   vortices, nextId, removed, initial, twin, forceSum>>

\* float dt = GetFrameTime(); dt = std::min(dt, 0.033f); wind.update(dt);
LoopWindUpdate ==
    \E dt \in LoopTimeSteps :
        /\ LoopStep("wind.update", dt)
        /\ time' = WindField_update(Wind, dt).time
        /\ gusts' = WindField_update(Wind, dt).gusts
        /\ windBefore' = [wind |-> Wind, dt |-> dt]
        /\ UNCHANGED <<particles, before, attachVelocity, currentForward,
                       attachLine>>

\* cape.setAttachPoint(character.getCapeAttachPoint());
LoopSetAttachPoint ==
    \E point \in LoopAttachPoints :
        /\ LoopStep("setAttachPoint", point)
        /\ particles' = Cape_setAttachPoint(particles, config, point)
        /\ before' = particles
        /\ attachLine' = [ col \in 1..config.width |->
                             << Cape_attachX(config, point, col - 1),
                                point[2] >> ]
        /\ UNCHANGED <<attachVelocity, currentForward, time, gusts,
                       windBefore>>

\* cape.setAttachVelocity(character.getVelocity());
LoopSetAttachVelocity ==
    \E velocity \in LoopVelocities :
        /\ LoopStep("setAttachVelocity", velocity)
        /\ particles' = Cape_setAttachVelocity(particles, config, velocity)
        /\ before' = particles
        /\ attachVelocity' = velocity
        /\ UNCHANGED <<currentForward, attachLine, time, gusts, windBefore>>

\* cape.update(dt, wind); with the dt of this frame
LoopCapeUpdate ==
    /\ LoopStep("update", windBefore.dt)
    /\ particles' = Cape_update(particles, config, windBefore.dt, Wind)
    /\ before' = particles
    /\ UNCHANGED <<attachVelocity, currentForward, attachLine, time, gusts,
                   windBefore>>

\* cape.solveConstraints(5);
LoopSolveConstraints ==
    /\ LoopStep("solveConstraints", 5)
    /\ particles' = Cape_solveConstraints(particles, constraints,
                                          bendConstraints, 5)
    /\ before' = particles
    /\ UNCHANGED <<attachVelocity, currentForward, attachLine, time, gusts,
                   windBefore>>

NextLoop ==
    \/ LoopWindUpdate
    \/ LoopSetAttachPoint
    \/ LoopSetAttachVelocity
    \/ LoopCapeUpdate
    \/ LoopSolveConstraints

SpecLoop == InitLoop /\ [][NextLoop]_vars

\* C16: in the frame loop every wind.update follows construction or the
\* solveConstraints of the frame before, setAttachPoint follows wind.update,
\* setAttachVelocity follows setAttachPoint, cape.update follows
\* setAttachVelocity with the dt of that wind.update, and solveConstraints
\* follows cape.update: each is called exactly once per frame, in this order.
C16_TickOrder ==
    [][ /\ lastOp' = "wind.update"
              => lastOp \in {"construct", "solveConstraints"}
        /\ lastOp' = "setAttachPoint" => lastOp = "wind.update"
        /\ lastOp' = "setAttachVelocity" => lastOp = "setAttachPoint"
        /\ lastOp' = "update"
              => lastOp = "setAttachVelocity" /\ lastArg' = windBefore.dt
        /\ lastOp' = "solveConstraints" => lastOp = "update"
        /\ lastOp' \in { LoopCalls[k] : k \in 1..5 } ]_vars

\* the second frame has ended, and its solveConstraints has moved particles
\* of a cape that was repositioned and updated in it
C16_Witness ==
    /\ steps = 2 * Len(LoopCalls)
    /\ lastOp = "solveConstraints"
    /\ particles # before
    /\ attachLine # Row0(initial.particles, config)
    /\ time > 0

-----------------------------------------------------------------------------
(* SpecTwin: two wind fields with a cape each, built with the same          *)
(* configuration and handed the same calls, and two noise generators that   *)
(* are constructed differently and reseeded together. The first system is   *)
(* the one of the variables; twin holds the second system and both          *)
(* generators; twin.seeds is history, the seed of their last reseed.        *)

\* calls made on each of the two systems
MaxTwinSteps == 3

TwinGrid == <<3, 3>>
TwinSeeds == { 7, 12345 }
TwinTimeStep == <<1, 10>>
TwinPoint(d) == Vec(d, 5000, -2000, 1000)
TwinForward == <<1000, 0, 1000>>
TwinVelocity(d) == Vec(d, 30000, -10000, 5000)
TwinQueryPoints(d) == { Vec(d, 0, 0, 0), Vec(d, 3000, 1000, 2000) }

\* arguments of noise and octaveNoise
NoiseInputs == { <<0, 0, 0>>, <<1500, 250, 0>>, <<3700, 12100, 900>> }

TwinConfig(d) ==
    CHOOSE c \in CapeConfigs(d) : <<c.segments, c.width>> = TwinGrid

\* the second system as one value
TwinOf(w, ps, velocity, forward) ==
    [wind |-> w, particles |-> ps, attachVelocity |-> velocity,
     currentForward |-> forward]

InitTwin ==
    /\ dim \in {2, 3}
    /\ config = TwinConfig(dim)
    /\ particles = IF dim = 2
                   THEN Cape_createParticles(config, CapeOrigin(2))
                   ELSE Cape3D_createParticles(config, CapeOrigin(3), CapeForward)
    /\ constraints = IF dim = 2
                     THEN Cape_createConstraints(particles, config)
                     ELSE Cape3D_createConstraints(config)
    /\ bendConstraints = IF dim = 2
                         THEN Cape_createBendingConstraints(particles, config)
                         ELSE Cape3D_createBendingConstraints(particles, config)
    /\ attachVelocity = Zero(dim)
    /\ currentForward = IF dim = 2 THEN Zero(2) ELSE normalized(CapeForward)
    /\ attachLine = Row0(particles, config)
    /\ before = particles
    /\ windConfig = CapeWindConfig(dim)
    /\ time = 0
    /\ gusts = <<>>
    /\ vortices = <<>>
    /\ nextId = 1
    /\ removed = {}
    /\ windBefore = [wind |-> Wind, dt |-> <<0, 1>>]
    /\ initial = [particles |-> particles, constraints |-> constraints,
                  bendConstraints |-> bendConstraints]
    /\ lastArg = <<>>
    /\ twin = [system |-> TwinOf(Wind, particles, attachVelocity, currentForward),
               generators |-> << PerlinNoise_default, PerlinNoise(WindSeed) >>,
               seeds |-> {}]
    /\ forceSum = <<>>
    /\ lastOp = "construct"
    /\ steps = 0

\* one call, made on the first system and on the second
TwinStep(op, arg, second) ==
    /\ steps < MaxTwinSteps
    /\ twin' = [twin EXCEPT !.system = second]
    /\ lastOp' = op
    /\ lastArg' = arg
    /\ steps' = steps + 1
    /\ UNCHANGED <<dim, constraints, bendConstraints, config, windConfig,
                   removed, initial, forceSum>>

\* a call on the two wind fields
TwinWindStep(op, arg, w, second) ==
    /\ TwinStep(op, arg, [twin.system EXCEPT !.wind = second])
    /\ time' = w.time
    /\ gusts' = w.gusts
    /\ vortices' = w.vortices
    /\ windBefore' = [wind |-> Wind, dt |-> IF op = "wind.update" THEN arg
                                            ELSE <<0, 1>>]
    /\ UNCHANGED <<particles, before, attachVelocity, currentForward,
                   attachLine>>

\* a call on the two capes
TwinCapeStep(op, arg, ps, second) ==
    /\ TwinStep(op, arg, second)
    /\ particles' = ps
    /\ before' = particles
    /\ UNCHANGED <<time, gusts, vortices, nextId, windBefore>>

TwinWindUpdate ==
    /\ IF dim = 2
       THEN TwinWindStep("wind.update", TwinTimeStep,
                WindField_update(Wind, TwinTimeStep),
                WindField_update(twin.system.wind, TwinTimeStep))
       ELSE TwinWindStep("wind.update", TwinTimeStep,
                WindField3D_update(Wind, TwinTimeStep),
                WindField3D_update(twin.system.wind, TwinTimeStep))
    /\ UNCHANGED nextId

TwinAddGust ==
    /\ nextId <= MaxEvents
    /\ nextId' = nextId + 1
    /\ \E duration \in EventDurations :
          IF dim = 2
          THEN TwinWindStep("addGust", duration,
                   WindField_addGust(Wind, nextId, EventPosition(2),
                       EventStrength, EventRadius, duration),
                   WindField_addGust(twin.system.wind, nextId, EventPosition(2),
                       EventStrength, EventRadius, duration))
          ELSE TwinWindStep("addGust", duration,
                   WindField3D_addGust(Wind, nextId, EventPosition(3),
                       TwinForward, EventStrength, EventRadius, duration),
                   WindField3D_addGust(twin.system.wind, nextId,
                       EventPosition(3), TwinForward, EventStrength,
                       EventRadius, duration))

TwinAddVortex ==
    /\ dim = 3
    /\ nextId <= MaxEvents
    /\ nextId' = nextId + 1
    /\ \E axis \in VortexAxes :
          TwinWindStep("addVortex", axis,
              WindField3D_addVortex(Wind, nextId, EventPosition(3), axis,
                  EventStrength, EventRadius, 1000),
              WindField3D_addVortex(twin.system.wind, nextId, EventPosition(3),
                  axis, EventStrength, EventRadius, 1000))

TwinSetAttachPoint ==
    /\ IF dim = 2
       THEN /\ TwinCapeStep("setAttachPoint", TwinPoint(2),
                   Cape_setAttachPoint(particles, config, TwinPoint(2)),
                   [twin.system EXCEPT !.particles =
                       Cape_setAttachPoint(twin.system.particles, config,
                                           TwinPoint(2))])
            /\ attachLine' = [ col \in 1..config.width |->
                                 << Cape_attachX(config, TwinPoint(2), col - 1),
                                    TwinPoint(2)[2] >> ]
            /\ UNCHANGED currentForward
       ELSE /\ TwinCapeStep("setAttachPoint", <<TwinPoint(3), TwinForward>>,
                   Cape3D_setAttachPoint(particles, config, TwinPoint(3),
                                         TwinForward),
                   [twin.system EXCEPT
                       !.particles =
                           Cape3D_setAttachPoint(twin.system.particles, config,
                                                 TwinPoint(3), TwinForward),
                       !.currentForward = normalized(TwinForward)])
            /\ currentForward' = normalized(TwinForward)
            /\ attachLine' = [ col \in 1..config.width |->
                                 Cape3D_attachPos(config, TwinPoint(3),
                                                  TwinForward, col - 1) ]
    /\ UNCHANGED attachVelocity

TwinSetAttachVelocity ==
    /\ TwinCapeStep("setAttachVelocity", TwinVelocity(dim),
           IF dim = 2
           THEN Cape_setAttachVelocity(particles, config, TwinVelocity(2))
           ELSE Cape3D_setAttachVelocity(particles, config, TwinVelocity(3)),
           [twin.system EXCEPT
               !.particles =
                   IF dim = 2
                   THEN Cape_setAttachVelocity(twin.system.particles, config,
                                               TwinVelocity(2))
                   ELSE Cape3D_setAttachVelocity(twin.system.particles, config,
                                                 TwinVelocity(3)),
               !.attachVelocity = TwinVelocity(dim)])
    /\ attachVelocity' = TwinVelocity(dim)
    /\ UNCHANGED <<currentForward, attachLine>>

TwinCapeUpdate ==
    /\ TwinCapeStep("update", TwinTimeStep,
           IF dim = 2
           THEN Cape_update(particles, config, TwinTimeStep, Wind)
           ELSE Cape3D_update(particles, config, TwinTimeStep, Wind,
                              attachVelocity, currentForward),
           [twin.system EXCEPT
               !.particles =
                   IF dim = 2
                   THEN Cape_update(twin.system.particles, config,
                                    TwinTimeStep, twin.system.wind)
                   ELSE Cape3D_update(twin.system.particles, config,
                                      TwinTimeStep, twin.system.wind,
                                      twin.system.attachVelocity,
                                      twin.system.currentForward)])
    /\ UNCHANGED <<attachVelocity, currentForward, attachLine>>

TwinSolveConstraints ==
    /\ TwinCapeStep("solveConstraints", 2,
           IF dim = 2
           THEN Cape_solveConstraints(particles, constraints,
                                      bendConstraints, 2)
           ELSE Cape3D_solveConstraints(particles, constraints,
                                        bendConstraints, 2),
           [twin.system EXCEPT
               !.particles =
                   IF dim = 2
                   THEN Cape_solveConstraints(twin.system.particles,
                            constraints, bendConstraints, 2)
                   ELSE Cape3D_solveConstraints(twin.system.particles,
                            constraints, bendConstraints, 2)])
    /\ UNCHANGED <<attachVelocity, currentForward, attachLine>>

\* reseed(seed) on both generators
TwinReseed ==
    /\ steps < MaxTwinSteps
    /\ \E seed \in TwinSeeds :
          /\ twin' = [twin EXCEPT
                 !.generators =
                     << PerlinNoise_reseed(twin.generators[1], seed),
                        PerlinNoise_reseed(twin.generators[2], seed) >>,
                 !.seeds = {seed}]
          /\ lastArg' = seed
    /\ lastOp' = "reseed"
    /\ steps' = steps + 1
    /\ UNCHANGED <<dim, particles, before, capeVars, windVars, initial,
                   forceSum>>

NextTwin ==
    \/ TwinWindUpdate
    \/ TwinAddGust
    \/ TwinAddVortex
    \/ TwinSetAttachPoint
    \/ TwinSetAttachVelocity
    \/ TwinCapeUpdate
    \/ TwinSolveConstraints
    \/ TwinReseed

SpecTwin == InitTwin /\ [][NextTwin]_vars

\* the two generators return the same noise and octaveNoise on every input
SameNoise(g, h) ==
    \A in \in NoiseInputs :
        /\ PerlinNoise_noise(g, in[1], in[2], in[3])
              = PerlinNoise_noise(h, in[1], in[2], in[3])
        /\ PerlinNoise_octaveNoise(g, in[1], in[2], in[3], 3, 500)
              = PerlinNoise_octaveNoise(h, in[1], in[2], in[3], 3, 500)

-----------------------------------------------------------------------------
(* SpecSettle: a 4 x 4 cape hanging in still air, stepped frame by frame    *)
(* with update(1/60) followed by solveConstraints(5)                        *)

\* frames of the scenario
SettleFrames == 120

\* CapeConfig{} with segments = 4 and width = 4
SettleConfig ==
    [segments |-> 4, width |-> 4, segmentLength |-> 8000, stiffness |-> 950,
     bendStiffness |-> 300, gravity |-> 400000, windInfluence |-> 1200,
     damping |-> 980]

\* a wind field with every strength zero
SettleWindConfig == CHOOSE c \in WindConfigs(2) : c.baseStrength = 0

SettleTimeStep == <<1, 60>>
SettleOrigins == { <<0, 0>>, <<100000, 50000>> }

InitSettle ==
    /\ dim = 2
    /\ config = SettleConfig
    /\ \E origin \in SettleOrigins :
          particles = Cape_createParticles(config, origin)
    /\ constraints = Cape_createConstraints(particles, config)
    /\ bendConstraints = Cape_createBendingConstraints(particles, config)
    /\ attachVelocity = Zero(2)
    /\ currentForward = Zero(2)
    /\ attachLine = Row0(particles, config)
    /\ before = particles
    /\ windConfig = SettleWindConfig
    /\ time = 0
    /\ gusts = <<>>
    /\ vortices = <<>>
    /\ nextId = 1
    /\ removed = {}
    /\ windBefore = <<>>
    /\ initial = [particles |-> particles, constraints |-> constraints,
                  bendConstraints |-> bendConstraints]
    /\ lastArg = <<>>
    /\ twin = <<>>
    /\ forceSum = <<>>
    /\ lastOp = "construct"
    /\ steps = 0

SettleStep(op, arg, ps) ==
    /\ steps < 2 * SettleFrames
    /\ particles' = ps
    /\ before' = particles
    /\ lastOp' = op
    /\ lastArg' = arg
    /\ steps' = steps + 1
    /\ UNCHANGED <<dim, capeVars, windVars, initial, twin, forceSum>>

\* cape.update(1.0f / 60, wind), the first call of a frame
SettleUpdate ==
    /\ lastOp # "update"
    /\ SettleStep("update", SettleTimeStep,
           Cape_update(particles, config, SettleTimeStep, Wind))

\* cape.solveConstraints(5), the second call of a frame
SettleSolveConstraints ==
    /\ lastOp = "update"
    /\ SettleStep("solveConstraints", 5,
           Cape_solveConstraints(particles, constraints, bendConstraints, 5))

NextSettle ==
    \/ SettleUpdate
    \/ SettleSolveConstraints

SpecSettle == InitSettle /\ [][NextSettle]_vars

\* distance between the k-th particle and the particle one row below it
RowSpacing(ps, cfg, k) ==
    length(VSub(ps[k + cfg.width].position, ps[k].position))

\* sum of the row-to-row distances of the particles k, k + 1, ...
RECURSIVE SpacingSum(_, _, _)
SpacingSum(ps, cfg, k) ==
    IF k > (cfg.segments - 1) * cfg.width THEN 0
    ELSE RowSpacing(ps, cfg, k) + SpacingSum(ps, cfg, k + 1)

AverageSpacing(ps, cfg) ==
    SpacingSum(ps, cfg, 1) \div ((cfg.segments - 1) * cfg.width)

\* no coordinate of a particle is farther than reach from where the
\* particle was constructed
Within(ps, reach) ==
    \A i \in 1..Len(ps), j \in 1..2 :
        Abs(ps[i].position[j] - initial.particles[i].position[j]) <= reach

\* C18: the 4 x 4 cape of segment length 8, stiffness 0.95 and gravity 400
\* in still air, stepped with update(1/60) and solveConstraints(5) frame by
\* frame, stays bounded (no coordinate of a particle is ever farther from
\* its constructed place than twice the cloth's height of segments x
\* segmentLength, during a frame or after it), and after the last frame the
\* average distance between vertically adjacent particles differs from
\* segmentLength by no more than 20% of it.
C18_SettlesBounded ==
    config = SettleConfig =>
        /\ Within(particles, 2 * config.segments * config.segmentLength)
        /\ steps = 2 * SettleFrames
              => Abs(AverageSpacing(particles, config) - config.segmentLength) * 100
                    <= 20 * config.segmentLength

\* the last frame has ended and the cloth has moved under gravity
C18_Witness ==
    /\ config = SettleConfig
    /\ steps = 2 * SettleFrames
    /\ lastOp = "solveConstraints"
    /\ particles # initial.particles
    /\ AverageSpacing(particles, config) # config.segmentLength

-----------------------------------------------------------------------------
(* SpecNormal: a Cape3D whose surface normals are read between updates.    *)
(* getNormal and getAverageNormal are const: they leave the cape as it is, *)
(* and lastArg holds their arguments, the grid places they read and the    *)
(* vector they return when every place read is a particle of the grid.     *)

\* segments and width of the grids, the smallest ones included
NormalGrids == { <<2, 2>>, <<2, 3>>, <<3, 2>>, <<3, 3>> }

NormalConfigs ==
    { [c EXCEPT !.segments = g[1], !.width = g[2]] :
        c \in CapeConfigs(3), g \in NormalGrids }

\* the places of the grid
Inside(cfg) == (0..(cfg.segments - 1)) \X (0..(cfg.width - 1))

InitNormal ==
    /\ dim = 3
    /\ config \in NormalConfigs
    /\ particles = Cape3D_createParticles(config, CapeOrigin(3), CapeForward)
    /\ constraints = Cape3D_createConstraints(config)
    /\ bendConstraints = Cape3D_createBendingConstraints(particles, config)
    /\ attachVelocity = Zero(3)
    /\ currentForward = normalized(CapeForward)
    /\ attachLine = Row0(particles, config)
    /\ before = particles
    /\ windConfig = CapeWindConfig(3)
    /\ time = 1500
    /\ gusts = << CapeGust(3) >>
    /\ vortices = <<>>
    /\ nextId = 2
    /\ removed = {}
    /\ windBefore = <<>>
    /\ initial = [particles |-> particles, constraints |-> constraints,
                  bendConstraints |-> bendConstraints]
    /\ lastArg = <<>>
    /\ twin = <<>>
    /\ forceSum = <<>>
    /\ lastOp = "construct"
    /\ steps = 0

\* a const call: only the history changes
NormalRead(op, at, reads, normal) ==
    /\ lastOp' = op
    /\ lastArg' = [at |-> at, reads |-> reads,
                   normal |-> IF reads \subseteq Inside(config)
                              THEN normal ELSE <<>>]
    /\ UNCHANGED <<dim, particles, before, capeVars, windVars, initial, twin,
                   forceSum, steps>>

NormalGetNormal ==
    \E row0 \in (-1)..config.segments, col0 \in (-1)..config.width :
       \E row \in ClampOutcomes(row0, 1, config.segments - 2),
          col \in ClampOutcomes(col0, 1, config.width - 2) :
          NormalRead("getNormal", <<row0, col0>>,
                     Cape3D_getNormalReads(row, col),
                     Cape3D_getNormal(particles, config, row, col))

NormalGetAverageNormal ==
    NormalRead("getAverageNormal", <<>>, Cape3D_getAverageNormalReads(config),
               Cape3D_getAverageNormal(particles, config))

NextNormal ==
    \/ CapeUpdate
    \/ NormalGetNormal
    \/ NormalGetAverageNormal

SpecNormal == InitNormal /\ [][NextNormal]_vars

NormalsRead == lastOp \in {"getNormal", "getAverageNormal"}

\* C30: on a Cape3D of segments >= 2 and width >= 2, the grids of
\* segments = 2 or width = 2 included, getNormal(row, col), whatever row and
\* col, and getAverageNormal() read only particles whose row is in
\* 0 .. segments - 1 and whose column is in 0 .. width - 1.
C30_NormalReadsInside ==
    (NormalsRead /\ config.segments >= 2 /\ config.width >= 2) =>
        lastArg.reads \subseteq Inside(config)

\* what the code does: getAverageNormal reads inside the grid on every
\* grid, and getNormal does on the grids of segments >= 3 and width >= 3;
\* with segments = 2 or width = 2 every getNormal reads a place outside
NormalReadsInsideFromThree ==
    /\ lastOp = "getAverageNormal" => lastArg.reads \subseteq Inside(config)
    /\ lastOp = "getNormal" =>
          (lastArg.reads \subseteq Inside(config))
             <=> (config.segments >= 3 /\ config.width >= 3)

\* getNormal on a grid of two rows read the row below the last
NormalReadOutside ==
    /\ lastOp = "getNormal"
    /\ config.segments = 2
    /\ \E col \in 0..(config.width - 1) :
          <<config.segments, col>> \in lastArg.reads

-----------------------------------------------------------------------------
(* SpecNoise: one PerlinNoise generator, reseeded and sampled. The          *)
(* generator is kept where SpecTwin keeps its generators; lastArg holds    *)
(* the coordinates of the last call and the table indices it read.         *)

\* samples taken from the generator
MaxSamples == 1

NoiseSeeds == { 255, WindSeed }

\* x runs over every lattice cell and one cell to either side of the table
NoiseXs == { k * Scale + 500 : k \in (-1)..TableSize }

\* y and z: just below zero, in the last cell of the table, and in the first
NoiseYs == { -1, 0 }

Generator == twin.generators[1]

InitNoise ==
    /\ dim = 3
    /\ particles = <<>>
    /\ before = <<>>
    /\ IdleCape
    /\ IdleWind
    /\ initial = <<>>
    /\ lastArg = <<>>
    /\ \E seed \in NoiseSeeds \cup {PerlinNoise_default.seed} :
          twin = [generators |-> << PerlinNoise(seed) >>]
    /\ forceSum = <<>>
    /\ lastOp = "construct"
    /\ steps = 0

NoiseStep(op, arg) ==
    /\ lastOp' = op
    /\ lastArg' = arg
    /\ UNCHANGED <<dim, particles, before, capeVars, windVars, initial,
                   forceSum>>

NoiseReseed ==
    \E seed \in NoiseSeeds :
       /\ twin' = [twin EXCEPT !.generators[1] = PerlinNoise_reseed(@, seed)]
       /\ NoiseStep("reseed", seed)
       /\ UNCHANGED steps

NoiseSample(at, reads) ==
    /\ steps < MaxSamples
    /\ steps' = steps + 1
    /\ NoiseStep("noise", [at |-> at, reads |-> reads])
    /\ UNCHANGED twin

NoiseNoise2 ==
    \E x \in NoiseXs, y \in NoiseYs :
       NoiseSample(<<x, y>>, noiseReads2(Generator.seed, x, y))

NoiseNoise3 ==
    \E x \in NoiseXs, y \in NoiseYs, z \in NoiseYs :
       NoiseSample(<<x, y, z>>, noiseReads3(Generator.seed, x, y, z))

NextNoise ==
    \/ NoiseReseed
    \/ NoiseNoise2
    \/ NoiseNoise3

SpecNoise == InitNoise /\ [][NextNoise]_vars

\* the table of the generator, entries 0 .. 511
Table == [ i \in 0..(2 * TableSize - 1) |-> Perm(Generator.seed, i) ]

\* C29: after construction and after any reseed the entries 0 .. 255 of the
\* table are a permutation of 0 .. 255 and entry 256 + i equals entry i;
\* every index at which noise(x, y) or noise(x, y, z) reads the table lies
\* in 0 .. 511.
C29_TableReadsInside ==
    /\ lastOp \in {"construct", "reseed"} =>
          /\ { Table[i] : i \in 0..(TableSize - 1) } = 0..(TableSize - 1)
          /\ \A i \in 0..(TableSize - 1) : Table[TableSize + i] = Table[i]
    /\ lastOp = "noise" => lastArg.reads \subseteq DOMAIN Table

\* a generator of another seed than the default one was sampled in three
\* dimensions and read the last entry of its table
C29_Witness ==
    /\ lastOp = "noise"
    /\ Len(lastArg.at) = 3
    /\ Generator.seed # PerlinNoise_default.seed
    /\ 2 * TableSize - 1 \in lastArg.reads

=============================================================================
